---- MODULE Spec2Model ----
(***************************************************************************)
(* ZeroLossIntro: one file's pipeline                                      *)
(*     probe -> make_intro_video -> concat_videos -> driver cleanup        *)
(* as run by the command line driver (ddys_intro.main) and by the GUI      *)
(* worker (ZeroLossIntroGUI.process_video).  The pipeline is cut at its    *)
(* suspension points, the external ffmpeg/ffprobe invocations; pc is the   *)
(* position of the pipeline, proc the fate of the process it waits for.    *)
(***************************************************************************)
EXTENDS Integers, Sequences, FiniteSets, TLC

VARIABLES
    pc,                  \* position of the pipeline
    driver,              \* "cli" (main) or "gui" (process_video)
    keep_temp,           \* args.keep_temp (the GUI has no such option)
    fs,                  \* the files that exist, by role
    log,                 \* the ffmpeg invocations started so far, in order
    proc,                \* fate of the external process being waited for
    err,                 \* the exception in flight / reported, or NoErr
    video_info,          \* get_video_info(source) of the driver
    intro_codec,         \* intro_info['codec_name'] probed by concat_videos
    font_needs_cleanup,  \* make_intro_video copied the font into temp_dir
    sizes,               \* the three sizes read by the size validation
    durs,                \* the two durations probed by the duration validation
    warned,              \* warnings.warn(...) issued so far
    timing,              \* a call of the duration computation and its result
    probe,               \* a call of get_video_info and its result
    naming,              \* a destination directory and the output paths generated
    batch,               \* the file loop of process_video
    inst,                \* pipeline instances that run side by side
    enc,                 \* a call of the encoder selection and its result
    cv,                  \* a call of concat_videos with its progress events
    mi,                  \* a call of make_intro_video and the working directory
    gui                  \* the GUI: main loop, worker threads, event queue

\* the state of one file's pipeline
pipeVars == <<pc, driver, keep_temp, fs, log, proc, err, video_info, intro_codec,
              font_needs_cleanup, sizes, durs, warned>>

\* the state of the functions studied on their own
pureVars == <<timing, probe, naming, batch, inst, enc, cv, mi, gui>>

vars == <<pipeVars, pureVars>>

(***************************************************************************)
(* Bounds of the model.                                                    *)
(***************************************************************************)
MaxSize == 10        \* file sizes of source and output range over 0..MaxSize
MaxIntroSize == 1    \* file size of the intro clip ranges over 0..MaxIntroSize
MaxDur == 1          \* probed durations range over 0..MaxDur

Drivers == {"cli", "gui"}

\* codec names as ffprobe may report them (mixed case included)
RawCodecs == {"h264", "hevc", "HEVC", "h265", "vp9", "mpeg2video", "xyz"}

\* text captured from a process; a token stands for a text holding that keyword
Texts == {"", "codec", "stream", "other"}

\* ---------------------------------------------------------------- values

NoErr == [kind |-> "none", stage |-> "none", msg |-> "", hint |-> "none"]

Error(kind, stage, msg, hint) ==
    [kind |-> kind, stage |-> stage, msg |-> msg, hint |-> hint]

Idle == [exit |-> "idle", stderr |-> "", stdout |-> ""]

NoInfo == [codec_name |-> "", has_audio |-> FALSE]

NoSizes == [checked |-> FALSE, exists |-> FALSE, intro |-> 0, movie |-> 0, out |-> 0]

NoDurs == [probed |-> FALSE, out |-> 0, movie |-> 0]

\* fates of a process started by subprocess.run(capture_output=True)
RunOutcomes ==
    {[exit |-> "exit0", stderr |-> "", stdout |-> ""],
     [exit |-> "never", stderr |-> "", stdout |-> ""]}
    \cup {[exit |-> "nonzero", stderr |-> e, stdout |-> o] : e \in Texts, o \in Texts}

\* fates of a process started by Popen(stdout=PIPE, stderr=STDOUT)
PopenOutcomes ==
    {[exit |-> "exit0", stderr |-> "", stdout |-> ""],
     [exit |-> "never", stderr |-> "", stdout |-> ""]}
    \cup {[exit |-> "nonzero", stderr |-> "", stdout |-> o] : o \in Texts}

\* the upper case spellings of codec names, each with its lower case
UpperSpellings ==
    {<<"H264", "h264">>, <<"AVC", "avc">>, <<"X264", "x264">>,
     <<"HEVC", "hevc">>, <<"H265", "h265">>, <<"X265", "x265">>,
     <<"VP8", "vp8">>, <<"VP9", "vp9">>, <<"AV1", "av1">>,
     <<"MPEG4", "mpeg4">>, <<"MP4V", "mp4v">>, <<"MPEG2", "mpeg2">>,
     <<"MPEG2VIDEO", "mpeg2video">>, <<"PRORES", "prores">>,
     <<"THEORA", "theora">>, <<"XYZ", "xyz">>}

\* str.lower() on codec names
Lower(c) ==
    IF \E p \in UpperSpellings : p[1] = c
    THEN (CHOOSE p \in UpperSpellings : p[1] = c)[2]
    ELSE c


\* ------------------------------------------------------- command lines

\* a selection that compares the codec name as it is spelled
video_codec_CaseSensitive(codec_name) ==
    CASE codec_name \in {"hevc", "h265", "x265"} -> "libx265"
      [] codec_name \in {"h264", "avc", "x264"} -> "libx264"
      [] codec_name \in {"vp9"} -> "libvpx-vp9"
      [] codec_name \in {"vp8"} -> "libvpx"
      [] codec_name \in {"av1"} -> "libaom-av1"
      [] codec_name \in {"mpeg4", "mp4v"} -> "mpeg4"
      [] codec_name \in {"mpeg2video", "mpeg2"} -> "mpeg2video"
      [] OTHER -> codec_name

\* make_intro_video: the encoder chosen from the source's codec name
video_codec(codec_name) ==
    LET c == Lower(codec_name) IN
    CASE c \in {"hevc", "h265", "x265"} -> "libx265"
      [] c \in {"h264", "avc", "x264"} -> "libx264"
      [] c \in {"vp9"} -> "libvpx-vp9"
      [] c \in {"vp8"} -> "libvpx"
      [] c \in {"av1"} -> "libaom-av1"
      [] c \in {"mpeg4", "mp4v"} -> "mpeg4"
      [] c \in {"mpeg2video", "mpeg2"} -> "mpeg2video"
      [] OTHER -> codec_name

\* an invocation: what it reads, the codec option it carries ("copy" is
\* '-c copy'), the '-bsf:v' filter or "none", whether the call passes timeout=,
\* and (filled in when the wait ends) how the process ended
Invocation(step, inputs, codec, bsf, src_codec, timed) ==
    [step |-> step, inputs |-> inputs, codec |-> codec, bsf |-> bsf,
     src_codec |-> src_codec, timed |-> timed,
     exit |-> "running", stderr |-> "", stdout |-> ""]

\* make_intro_video: lavfi colour source, lavfi silence when the source has audio
EncodeCmd(info) ==
    Invocation("encode",
               {"lavfi_color"} \cup (IF info.has_audio THEN {"lavfi_anullsrc"} ELSE {}),
               video_codec(info.codec_name), "none", "none", FALSE)

\* concat_videos: intro_bsf / movie_bsf
bsf_for(codec) ==
    IF codec \in {"hevc", "h265"} THEN "hevc_mp4toannexb" ELSE "h264_mp4toannexb"

\* concat_videos: cmd1 / cmd2, '-bsf:v' added "if intro_bsf:" (a non-empty string)
ToTsCmd(step, input, codec) ==
    LET bsf == bsf_for(codec) IN
    Invocation(step, {input}, "copy", IF bsf # "" THEN bsf ELSE "none", codec, TRUE)

\* concat_videos: cmd3, started with Popen and awaited with process.wait()
Cmd3 == Invocation("concat", {"concat_list"}, "copy", "none", "none", FALSE)

\* cmd4 selecting an encoder instead of '-c copy'
Cmd4_Reencode == Invocation("to_container", {"output_ts"}, "libx264", "none", "none", TRUE)

\* concat_videos: cmd4, subprocess.run(..., timeout=300)
Cmd4 == Invocation("to_container", {"output_ts"}, "copy", "none", "none", TRUE)

RemuxSteps == {"intro_ts", "movie_ts", "concat", "to_container"}

\* the process ended (or was killed on timeout): record it on its invocation
Finished(l, p, how) ==
    [l EXCEPT ![Len(l)] = [@ EXCEPT !.exit = how, !.stderr = p.stderr, !.stdout = p.stdout]]

\* -------------------------------------------------------------- cleanup

ConcatTemps == {"intro_ts", "movie_ts", "output_ts", "concat_list"}

\* a finally block that forgets the concatenated transport stream
TempCleanup_KeepsOutputTs(files) == files \ {"intro_ts", "movie_ts", "concat_list"}

\* concat_videos: the finally block
TempCleanup(files) == files \ ConcatTemps

\* make_intro_video: the finally block
FontCleanup(files, needs_cleanup) ==
    IF needs_cleanup THEN files \ {"font_copy"} ELSE files

\* main / process_video: removal of the intro clip after the pipeline
IntroCleanup(files, keep) ==
    IF ~keep THEN files \ {"intro"} ELSE files

\* ----------------------------------------------------------------- Init

\* no call of the functions studied on their own is under way
TimingIdle == [phase |-> "idle"]
ProbeIdle == [phase |-> "idle"]
NamingIdle == [phase |-> "idle"]
BatchIdle == [phase |-> "idle"]
InstIdle == [phase |-> "idle"]
EncIdle == [phase |-> "idle"]
CvIdle == [phase |-> "idle"]
MiIdle == [phase |-> "idle"]
GuiIdle == [phase |-> "idle"]

Init ==
    /\ timing = TimingIdle
    /\ probe = ProbeIdle
    /\ naming = NamingIdle
    /\ batch = BatchIdle
    /\ inst = InstIdle
    /\ enc = EncIdle
    /\ cv = CvIdle
    /\ mi = MiIdle
    /\ gui = GuiIdle
    /\ pc = "start"
    /\ driver \in Drivers
    /\ keep_temp \in BOOLEAN
    /\ (driver = "gui" => keep_temp = FALSE)
    /\ fs = {"movie"}
    /\ log = <<>>
    /\ proc = Idle
    /\ err = NoErr
    /\ video_info = NoInfo
    /\ intro_codec = ""
    /\ font_needs_cleanup = FALSE
    /\ sizes = NoSizes
    /\ durs = NoDurs
    /\ warned = {}

\* the pipeline stops with the exception e
Raise(e) ==
    /\ err' = e
    /\ pc' = "drv_end"
    /\ proc' = Idle

\* --------------------------------------------------------------- driver

\* main: get_video_info(input_path); process_video: get_video_info(current_video_path)
Probe ==
    /\ pc = "start"
    /\ UNCHANGED pureVars
    /\ \/ /\ Raise(Error("RuntimeError", "source_probe", "", "none"))
          /\ UNCHANGED video_info
       \/ /\ \E c \in RawCodecs, a \in BOOLEAN :
                video_info' = [codec_name |-> c, has_audio |-> a]
          /\ pc' = "mi_start"
          /\ UNCHANGED <<err, proc>>
    /\ UNCHANGED <<driver, keep_temp, fs, log, intro_codec, font_needs_cleanup,
                   sizes, durs, warned>>

\* ----------------------------------------------------- make_intro_video

\* make_intro_video up to the start of the encoder process
MakeIntroStart ==
    /\ pc = "mi_start"
    /\ UNCHANGED pureVars
    /\ \/ \* get_font_path raises
          /\ Raise(Error("FileNotFoundError", "font", "", "none"))
          /\ UNCHANGED <<fs, log, font_needs_cleanup>>
       \/ \* shutil.copy2 raises
          /\ Raise(Error("RuntimeError", "font", "", "none"))
          /\ UNCHANGED <<fs, log, font_needs_cleanup>>
       \/ \E copied \in BOOLEAN :
            LET files == IF copied THEN fs \cup {"font_copy"} ELSE fs IN
            /\ font_needs_cleanup' = copied
            /\ \/ \* find_ffmpeg_executable raises, before the try statement
                  /\ Raise(Error("FileNotFoundError", "tool", "", "none"))
                  /\ fs' = files
                  /\ UNCHANGED log
               \/ \* Popen cannot start the encoder, inside the try statement
                  /\ Raise(Error("FileNotFoundError", "encode", "", "none"))
                  /\ fs' = FontCleanup(files, copied)
                  /\ UNCHANGED log
               \/ \* the encoder runs
                  /\ fs' = files
                  /\ log' = Append(log, EncodeCmd(video_info))
                  /\ proc' \in PopenOutcomes
                  /\ pc' = "mi_wait"
                  /\ UNCHANGED err
    /\ UNCHANGED <<driver, keep_temp, video_info, intro_codec, sizes, durs, warned>>

\* ends of the ffprobe run that verifies the new clip; stdout names what the
\* output holds: nothing, a duration within 0.1 s of the effective duration,
\* a duration further off, or text that is not JSON
VerifyOutcomes ==
    {[exit |-> "exit0", stderr |-> "", stdout |-> o] :
        o \in {"", "within", "deviates", "not_json"}}
    \cup {[exit |-> e, stderr |-> "", stdout |-> ""] :
            e \in {"nonzero", "never", "not_started"}}

\* a verification whose RuntimeError for a wrong duration escapes
after_verify_Fatal(p) ==
    [warns |-> FALSE,
     raises |-> p.exit = "exit0" /\ p.stdout = "deviates"]

\* make_intro_video, the try statement around the verification: what is
\* raised inside it ends in warnings.warn
after_verify(p) ==
    [warns |-> \/ p.exit \in {"never", "not_started"}
               \/ p.exit = "exit0" /\ p.stdout \in {"", "deviates", "not_json"},
     raises |-> FALSE]

\* make_intro_video from process.wait() to its return
MakeIntroWait ==
    /\ pc = "mi_wait"
    /\ UNCHANGED pureVars
    /\ proc.exit # "never"
    /\ \/ /\ proc.exit = "nonzero"
          /\ \E partial \in BOOLEAN :
                fs' = FontCleanup(IF partial THEN fs \cup {"intro"} ELSE fs,
                                  font_needs_cleanup)
          /\ log' = Finished(log, proc, "nonzero")
          \* CalledProcessError(returncode, cmd) carries no output
          /\ Raise(Error("RuntimeError", "encode", "unknown", "none"))
          /\ UNCHANGED warned
       \/ /\ proc.exit = "exit0"
          /\ log' = Finished(log, proc, "exit0")
          /\ \/ \* intro_path.exists(): the clip is probed again
                /\ fs' = fs \cup {"intro"}
                /\ proc' \in VerifyOutcomes
                /\ pc' = "mi_verify"
             \/ \* no clip at intro_path: nothing is verified
                /\ fs' = FontCleanup(fs, font_needs_cleanup)
                /\ proc' = Idle
                /\ pc' = "cv_start"
          /\ UNCHANGED <<err, warned>>
    /\ UNCHANGED <<driver, keep_temp, video_info, intro_codec, font_needs_cleanup,
                   sizes, durs>>

\* make_intro_video, the end of the ffprobe run on the new clip (timeout 10 s)
\* and the finally block
MakeIntroVerify ==
    /\ pc = "mi_verify"
    /\ UNCHANGED pureVars
    /\ fs' = FontCleanup(fs, font_needs_cleanup)
    /\ warned' = IF after_verify(proc).warns
                  THEN warned \cup {"intro_duration"} ELSE warned
    /\ IF after_verify(proc).raises
       THEN Raise(Error("RuntimeError", "encode", proc.stdout, "none"))
       ELSE /\ pc' = "cv_start"
            /\ proc' = Idle
            /\ UNCHANGED err
    /\ UNCHANGED <<driver, keep_temp, log, video_info, intro_codec,
                   font_needs_cleanup, sizes, durs>>


\* -------------------------------------------------------- concat_videos

\* "kw in output_lower" on the texts of Texts
Contains(text, kw) == text = kw

\* concat_videos: error_hint chosen when the concatenation step exits non-zero
concat_error_hint(output_text) ==
    CASE Contains(output_text, "codec") \/ Contains(output_text, "incompatible") -> "codec"
      [] Contains(output_text, "duration") \/ Contains(output_text, "time") -> "duration"
      [] Contains(output_text, "stream") \/ Contains(output_text, "mismatch") -> "stream"
      [] OTHER -> "generic"

\* an except clause that drops the captured text
remux_error_msg_Dropped(stderr, stdout) == "unknown"

\* concat_videos, except CalledProcessError: error_msg = e.stderr or e.stdout or "unknown"
remux_error_msg(stderr, stdout) ==
    IF stderr # "" THEN stderr ELSE IF stdout # "" THEN stdout ELSE "unknown"

\* the RuntimeError concat_videos raises for a sub-step that exited non-zero;
\* cmd3's CalledProcessError is built by hand from output_text + error_hint
RemuxError(cmd, p) ==
    IF cmd.step = "concat"
    THEN Error("RuntimeError", "remux", p.stdout, concat_error_hint(p.stdout))
    ELSE Error("RuntimeError", "remux", remux_error_msg(p.stderr, p.stdout), "none")

\* subprocess.run(..., timeout=300) kills the process and raises TimeoutExpired,
\* which is no CalledProcessError: the except clause does not apply
RemuxTimeout == Error("TimeoutExpired", "remux", "", "none")

\* the wait for the current process can end: it exits, or the call has a timeout
WaitEnds == proc.exit # "never" \/ log[Len(log)].timed

\* a remux sub-step failed: except clause (if it applies), finally block, raise;
\* `written` is what the process left at its output path
RemuxFailed(written) ==
    /\ proc.exit \in {"nonzero", "never"}
    /\ fs' = TempCleanup(fs \cup written)
    /\ IF proc.exit = "nonzero"
       THEN /\ log' = Finished(log, proc, "nonzero")
            /\ Raise(RemuxError(log[Len(log)], proc))
       ELSE /\ log' = Finished(log, proc, "timeout")
            /\ Raise(RemuxTimeout)

\* concat_videos from its entry to the start of cmd1
ConcatStart ==
    /\ pc = "cv_start"
    /\ UNCHANGED pureVars
    /\ \/ \* find_ffmpeg_executable raises; finally block; propagates
          /\ Raise(Error("FileNotFoundError", "tool", "", "none"))
          /\ UNCHANGED <<log, intro_codec>>
       \/ \* get_video_info(intro_path): the clip does not exist
          /\ "intro" \notin fs
          /\ Raise(Error("FileNotFoundError", "probe", "", "none"))
          /\ UNCHANGED <<log, intro_codec>>
       \/ \* get_video_info fails on the intro or on the source
          /\ "intro" \in fs
          /\ Raise(Error("RuntimeError", "probe", "", "none"))
          /\ UNCHANGED <<log, intro_codec>>
       \/ /\ "intro" \in fs
          /\ \E c \in RawCodecs :
                /\ intro_codec' = Lower(c)
                /\ log' = Append(log, ToTsCmd("intro_ts", "intro", Lower(c)))
          /\ proc' \in RunOutcomes
          /\ pc' = "cv_run1"
          /\ UNCHANGED err
    /\ fs' = TempCleanup(fs)
    /\ UNCHANGED <<driver, keep_temp, video_info, font_needs_cleanup, sizes, durs, warned>>

\* subprocess.run(cmd1) returns or raises; on success cmd2 is started.
\* The source is the file the driver probed: movie_codec is its codec name.
ConcatRun1 ==
    /\ pc = "cv_run1"
    /\ UNCHANGED pureVars
    /\ WaitEnds
    /\ \/ /\ proc.exit = "exit0"
          /\ fs' = fs \cup {"intro_ts"}
          /\ log' = Append(Finished(log, proc, "exit0"),
                           ToTsCmd("movie_ts", "movie", Lower(video_info.codec_name)))
          /\ proc' \in RunOutcomes
          /\ pc' = "cv_run2"
          /\ UNCHANGED err
       \/ \E partial \in SUBSET {"intro_ts"} : RemuxFailed(partial)
    /\ UNCHANGED <<driver, keep_temp, video_info, intro_codec, font_needs_cleanup,
                   sizes, durs, warned>>

\* subprocess.run(cmd2) returns or raises; on success the concat list is
\* written and cmd3 is started with Popen
ConcatRun2 ==
    /\ pc = "cv_run2"
    /\ UNCHANGED pureVars
    /\ WaitEnds
    /\ \/ /\ proc.exit = "exit0"
          /\ fs' = fs \cup {"movie_ts", "concat_list"}
          /\ log' = Append(Finished(log, proc, "exit0"), Cmd3)
          /\ proc' \in PopenOutcomes
          /\ pc' = "cv_wait3"
          /\ UNCHANGED err
       \/ \E partial \in SUBSET {"movie_ts"} : RemuxFailed(partial)
    /\ UNCHANGED <<driver, keep_temp, video_info, intro_codec, font_needs_cleanup,
                   sizes, durs, warned>>

\* the output of cmd3 is read to its end and process.wait() returns; on
\* success cmd4 is started
ConcatWait3 ==
    /\ pc = "cv_wait3"
    /\ UNCHANGED pureVars
    /\ WaitEnds
    /\ \/ /\ proc.exit = "exit0"
          /\ fs' = fs \cup {"output_ts"}
          /\ log' = Append(Finished(log, proc, "exit0"), Cmd4)
          /\ proc' \in RunOutcomes
          /\ pc' = "cv_run4"
          /\ UNCHANGED err
       \/ \E partial \in SUBSET {"output_ts"} : RemuxFailed(partial)
    /\ UNCHANGED <<driver, keep_temp, video_info, intro_codec, font_needs_cleanup,
                   sizes, durs, warned>>

\* subprocess.run(cmd4) returns or raises; finally block
ConcatRun4 ==
    /\ pc = "cv_run4"
    /\ UNCHANGED pureVars
    /\ WaitEnds
    /\ \/ /\ proc.exit = "exit0"
          /\ \E written \in SUBSET {"output"} : fs' = TempCleanup(fs \cup written)
          /\ log' = Finished(log, proc, "exit0")
          /\ proc' = Idle
          /\ pc' = "cv_validate"
          /\ UNCHANGED err
       \/ \E partial \in SUBSET {"output"} : RemuxFailed(partial)
    /\ UNCHANGED <<driver, keep_temp, video_info, intro_codec, font_needs_cleanup,
                   sizes, durs, warned>>

\* a size validation that accepts an output exactly as large as the intro
SizeCheckFails_Strict(exists, intro_size, movie_size, output_size) ==
    \/ ~exists
    \/ output_size < intro_size
    \/ 10 * output_size < 9 * (intro_size + movie_size)

\* concat_videos: the size validation rejects the output.  expected_min_size is
\* the double (intro_size + movie_size) * 0.9; for sizes below 2^48 the
\* comparison of the integer output_size with it is 10*out < 9*(intro + movie)
SizeCheckFails(exists, intro_size, movie_size, output_size) ==
    \/ ~exists
    \/ output_size <= intro_size
    \/ 10 * output_size < 9 * (intro_size + movie_size)

\* concat_videos: existence and size validation of the output
ValidateSize ==
    /\ pc = "cv_validate"
    /\ UNCHANGED pureVars
    /\ \E i \in 0..MaxIntroSize, m \in 0..MaxSize, o \in 0..MaxSize :
          LET exists == "output" \in fs
              intro_size == IF "intro" \in fs /\ exists THEN i ELSE 0
              movie_size == IF exists THEN m ELSE 0
              output_size == IF exists THEN o ELSE 0
          IN /\ sizes' = [checked |-> TRUE, exists |-> exists, intro |-> intro_size,
                          movie |-> movie_size, out |-> output_size]
             /\ IF SizeCheckFails(exists, intro_size, movie_size, output_size)
                THEN Raise(Error("RuntimeError", "validate", "",
                                 IF exists /\ output_size > intro_size
                                 THEN "generic" ELSE "none"))
                ELSE /\ pc' = "cv_dur"
                     /\ UNCHANGED <<err, proc>>
    /\ UNCHANGED <<driver, keep_temp, fs, log, video_info, intro_codec,
                   font_needs_cleanup, durs, warned>>

\* concat_videos: the duration validation; everything raised inside its try
\* statement is caught by "except Exception" and becomes a warning
ValidateDuration ==
    /\ pc = "cv_dur"
    /\ UNCHANGED pureVars
    /\ \/ \* a probe times out, prints nothing or prints no JSON
          /\ warned' = warned \cup {"output_duration"}
          /\ UNCHANGED durs
       \/ \* a probe exits non-zero: nothing is compared
          /\ UNCHANGED <<warned, durs>>
       \/ \E od \in 0..MaxDur, md \in 0..MaxDur :
             /\ durs' = [probed |-> TRUE, out |-> od, movie |-> md]
             /\ warned' = IF od <= md THEN warned \cup {"output_duration"} ELSE warned
    /\ pc' = "drv_end"
    /\ UNCHANGED <<driver, keep_temp, fs, log, proc, err, video_info, intro_codec,
                   font_needs_cleanup, sizes>>

\* ---------------------------------------------------- end of the driver

\* main: steps after concat_videos, or the except clause; process_video:
\* the same inside the inner try statement around the two calls (a failure
\* of its own probe is caught outside of it).  The values read by the
\* validation were locals of concat_videos and are gone.
DriverEnd ==
    /\ pc = "drv_end"
    /\ UNCHANGED pureVars
    /\ fs' = IF driver = "gui" /\ err.stage = "source_probe"
             THEN fs
             ELSE IntroCleanup(fs, keep_temp)
    /\ sizes' = NoSizes
    /\ durs' = NoDurs
    /\ pc' = "done"
    /\ UNCHANGED <<driver, keep_temp, log, proc, err, video_info, intro_codec,
                   font_needs_cleanup, warned>>

Next ==
    \/ Probe
    \/ MakeIntroStart
    \/ MakeIntroWait
    \/ MakeIntroVerify
    \/ ConcatStart
    \/ ConcatRun1
    \/ ConcatRun2
    \/ ConcatWait3
    \/ ConcatRun4
    \/ ValidateSize
    \/ ValidateDuration
    \/ DriverEnd

Spec == Init /\ [][Next]_vars


\* ============================================= duration of the intro clip
\* Times are in milliseconds; a text is a sequence of characters, NL being the
\* line feed.

MaxLen == 4

NL == "NL"
Chars == {"a", "'", "\\", NL}
CharSpeeds == {0, 150, 1000}
Durations == {1000, 3000, 5000}

\* 0.2 s between the end of line 1 and the start of line 2
Line2Gap == 200
\* 0.5 s of hold after the last character
TrailingHold == 500
\* default of calculate_typewriter_duration's min_duration
DefaultMinDuration == 3000

TextsUpTo(n) == UNION {[1..k -> Chars] : k \in 0..n}

Max(a, b) == IF a >= b THEN a ELSE b

\* text.split('\n', 1): the text before the first line feed, and the text
\* after it ("" when there is no line feed)
FirstNL(text) ==
    IF \E i \in 1..Len(text) : text[i] = NL
    THEN CHOOSE i \in 1..Len(text) :
            text[i] = NL /\ \A j \in 1..(i - 1) : text[j] # NL
    ELSE 0

split(text) ==
    LET i == FirstNL(text)
    IN  IF i = 0
        THEN [line1 |-> text, line2 |-> <<>>]
        ELSE [line1 |-> SubSeq(text, 1, i - 1),
              line2 |-> SubSeq(text, i + 1, Len(text))]

\* build_typewriter_filter: when the second line starts
line2_start_NoGap(text, char_speed) ==
    Len(split(text).line1) * char_speed

line2_start_AtZero(text, char_speed) == 0

line2_start(text, char_speed) ==
    Len(split(text).line1) * char_speed + Line2Gap

\* calculate_typewriter_duration before its final max: the time the reveal
\* schedule needs
typewriter_total_NoHold(text, char_speed) ==
    LET line1 == split(text).line1
        line2 == split(text).line2
        line1_duration == IF line1 # <<>> THEN Len(line1) * char_speed ELSE 0
    IN  IF line2 # <<>>
        THEN (line1_duration + Line2Gap) + Len(line2) * char_speed
        ELSE line1_duration

typewriter_total(text, char_speed) ==
    LET line1 == split(text).line1
        line2 == split(text).line2
        line1_duration == IF line1 # <<>> THEN Len(line1) * char_speed ELSE 0
        total == IF line2 # <<>>
                 THEN (line1_duration + Line2Gap) + Len(line2) * char_speed
                 ELSE line1_duration
    IN  total + TrailingHold

\* a duration that ignores the reveal schedule
calculate_typewriter_duration_Fixed(text, char_speed, min_duration) ==
    min_duration

calculate_typewriter_duration(text, char_speed, min_duration) ==
    Max(typewriter_total(text, char_speed), min_duration)

\* make_intro_video: the duration the clip is rendered with
effective_duration_NoFloor(text, typewriter_speed, duration, typewriter_effect) ==
    IF typewriter_effect
    THEN typewriter_total(text, typewriter_speed)
    ELSE duration

effective_duration(text, typewriter_speed, duration, typewriter_effect) ==
    IF typewriter_effect
    THEN Max(calculate_typewriter_duration(text, typewriter_speed, duration),
             duration)
    ELSE duration

\* ------------------------------------------------- the overlay directives
\* A directive is one drawtext with enable='between(t,start,end)'. The times
\* of a filter program are counted in units of 1/den ms, den being the
\* denominator of the adjusted speed (1 when the speed is not adjusted).

Min(a, b) == IF a <= b THEN a ELSE b

\* str.replace(c, r)
RECURSIVE Replace(_, _, _)
Replace(s, c, r) ==
    IF s = <<>> THEN <<>>
    ELSE (IF Head(s) = c THEN r ELSE <<Head(s)>>) \o Replace(Tail(s), c, r)

\* an escaping that treats the quotes first
escape_QuotesFirst(s) ==
    Replace(Replace(s, "'", <<"\\", "'">>), "\\", <<"\\", "\\">>)

\* s.replace('\\', '\\\\').replace("'", "\\'")
escape(s) ==
    Replace(Replace(s, "\\", <<"\\", "\\">>), "'", <<"\\", "'">>)

\* a directive text that holds the k-th character alone
accumulated_text_SingleChar(chars, k) == <<chars[k]>>

\* "".join(chars[:i+1]) for the k-th character, k = i + 1
accumulated_text(chars, k) == SubSeq(chars, 1, k)

\* a last directive of line 1 that ends with its own character's slot
char_end_NotExtended(k, n, char_speed, duration) == k * char_speed

\* line 1: the end of the k-th of n directives
char_end(k, n, char_speed, duration) ==
    IF k < n THEN k * char_speed ELSE duration

\* a second line that keeps the requested speed whatever the duration
adjusted_speed_Never(start, n, char_speed, duration) ==
    [num |-> char_speed, den |-> 1]

\* line 2: the speed num/den its n characters are revealed with
adjusted_speed(start, n, char_speed, duration) ==
    IF start + n * char_speed > duration /\ duration - start > 0
    THEN [num |-> duration - start, den |-> n]
    ELSE [num |-> char_speed, den |-> 1]

build_typewriter_filter(text, char_speed, duration) ==
    LET line1 == split(text).line1
        line2 == split(text).line2
        n1 == Len(line1)
        n2 == Len(line2)
        start2 == line2_start(text, char_speed)
        adj == IF line2 # <<>>
               THEN adjusted_speed(start2, n2, char_speed, duration)
               ELSE [num |-> char_speed, den |-> 1]
        den == adj.den
        \* the start of the k-th character of line 2
        start_time(k) == start2 * den + (k - 1) * adj.num
        \* the loop leaves at the first character that starts at or after
        \* the duration
        shown == Cardinality({k \in 1..n2 :
                    \A j \in 1..k : start_time(j) < duration * den})
        first == [k \in 1..n1 |->
                    [line |-> 1, k |-> k,
                     text |-> escape(accumulated_text(line1, k)),
                     start |-> (k - 1) * char_speed * den,
                     end |-> char_end(k, n1, char_speed, duration) * den]]
        second == [k \in 1..shown |->
                    [line |-> 2, k |-> k,
                     text |-> escape(accumulated_text(line2, k)),
                     start |-> start_time(k),
                     end |-> IF k < n2
                             THEN Min(start_time(k + 1), duration * den)
                             ELSE duration * den]]
    IN  [den |-> den, adjusted |-> adj.num, directives |-> first \o second]

\* make_intro_video without the typewriter effect: the texts of its one or
\* two directives
static_texts(text) ==
    IF \E i \in 1..Len(text) : text[i] = NL
    THEN IF split(text).line2 # <<>>
         THEN <<escape(split(text).line1), escape(split(text).line2)>>
         ELSE <<escape(split(text).line1)>>
    ELSE <<escape(text)>>

NoFilter == [den |-> 1, adjusted |-> 0, directives |-> <<>>]

PipelineAtRest ==
    /\ pc = "start"
    /\ driver = "cli"
    /\ keep_temp = FALSE
    /\ fs = {"movie"}
    /\ log = <<>>
    /\ proc = Idle
    /\ err = NoErr
    /\ video_info = NoInfo
    /\ intro_codec = ""
    /\ font_needs_cleanup = FALSE
    /\ sizes = NoSizes
    /\ durs = NoDurs
    /\ warned = {}

InitTiming ==
    /\ PipelineAtRest
    /\ batch = BatchIdle
    /\ inst = InstIdle
    /\ enc = EncIdle
    /\ cv = CvIdle
    /\ mi = MiIdle
    /\ gui = GuiIdle
    /\ probe = ProbeIdle
    /\ naming = NamingIdle
    /\ \E text \in TextsUpTo(MaxLen), speed \in CharSpeeds,
          duration \in Durations, typewriter_effect \in BOOLEAN :
            timing = [phase |-> "input", text |-> text, speed |-> speed,
                      duration |-> duration,
                      typewriter_effect |-> typewriter_effect]

\* make_intro_video fixes the clip's duration and, in typewriter mode, builds
\* the reveal schedule
PlanIntro ==
    /\ timing.phase = "input"
    /\ timing' = [phase |-> "planned", text |-> timing.text,
                  speed |-> timing.speed, duration |-> timing.duration,
                  typewriter_effect |-> timing.typewriter_effect,
                  line2_start |-> line2_start(timing.text, timing.speed),
                  effective |-> effective_duration(timing.text, timing.speed,
                                    timing.duration, timing.typewriter_effect),
                  filter |-> IF timing.typewriter_effect
                             THEN build_typewriter_filter(timing.text,
                                    timing.speed,
                                    effective_duration(timing.text, timing.speed,
                                        timing.duration, TRUE))
                             ELSE NoFilter,
                  static |-> IF timing.typewriter_effect
                             THEN <<>>
                             ELSE static_texts(timing.text)]
    /\ UNCHANGED <<pipeVars, probe, naming, batch, inst, enc, cv, mi, gui>>

\* build_typewriter_filter called on its own, with any duration
FilterDurations == {100, 201, 350, 1000, 3000}

InitFilter ==
    /\ PipelineAtRest
    /\ probe = ProbeIdle
    /\ naming = NamingIdle
    /\ batch = BatchIdle
    /\ inst = InstIdle
    /\ enc = EncIdle
    /\ cv = CvIdle
    /\ mi = MiIdle
    /\ gui = GuiIdle
    /\ \E text \in TextsUpTo(MaxLen), speed \in CharSpeeds,
          duration \in FilterDurations :
            timing = [phase |-> "filter_input", text |-> text,
                      speed |-> speed, duration |-> duration]

BuildTypewriterFilter ==
    /\ timing.phase = "filter_input"
    /\ timing' = [phase |-> "filter_built", text |-> timing.text,
                  speed |-> timing.speed, duration |-> timing.duration,
                  filter |-> build_typewriter_filter(timing.text, timing.speed,
                                                    timing.duration)]
    /\ UNCHANGED <<pipeVars, probe, naming, batch, inst, enc, cv, mi, gui>>

NextFilter == BuildTypewriterFilter

SpecFilter == InitFilter /\ [][NextFilter]_vars

NextTiming == PlanIntro

SpecTiming == InitTiming /\ [][NextTiming]_vars


\* ======================================================== get_video_info
\* A frame rate is the sequence of its characters; <<>> stands for a key that
\* is absent from the stream (or empty): both are false for Python's "or".

MaxStreams == 2

Platforms == {"Windows", "posix"}
ZeroRate == <<"0", "/", "0">>
DefaultRate == <<"2", "5", "/", "1">>
Rates == {<<>>, ZeroRate, <<"2", "5">>, <<"3", "0", "/", "1">>}

StreamRecs ==
    [codec_type : {"video"}, codec_name : {"h264", "hevc"},
     r_frame_rate : Rates, avg_frame_rate : Rates]
    \cup [codec_type : {"audio"}, codec_name : {"aac", "ac3"},
          r_frame_rate : {ZeroRate}, avg_frame_rate : {ZeroRate}]
    \cup [codec_type : {"subtitle"}, codec_name : {"subrip"},
          r_frame_rate : {ZeroRate}, avg_frame_rate : {ZeroRate}]

StreamLists(n) == UNION {[1..k -> StreamRecs] : k \in 0..n}

\* how the ffprobe run ends once the process has started
ProbeRuns == {"ok", "nonzero", "timeout", "empty", "not_json"}

ProbeInput(platform, video_exists, ffmpeg_path, tool_on_path, run, streams) ==
    [phase |-> "input", platform |-> platform, video_exists |-> video_exists,
     ffmpeg_path |-> ffmpeg_path, tool_on_path |-> tool_on_path, run |-> run,
     streams |-> streams]

\* the calls of get_video_info; an input the call never reads has one value
ProbeInputs ==
    {ProbeInput(p, FALSE, "none", TRUE, "ok", <<>>) : p \in Platforms}
    \cup {ProbeInput(p, TRUE, f, TRUE, "ok", <<>>) :
            p \in Platforms, f \in {"bad_dir", "no_ffprobe"}}
    \cup {ProbeInput(p, TRUE, "none", FALSE, "ok", <<>>) : p \in Platforms}
    \cup {ProbeInput(p, TRUE, f, TRUE, r, <<>>) :
            p \in Platforms, f \in {"none", "ok_dir"},
            r \in ProbeRuns \ {"ok"}}
    \cup {ProbeInput(p, TRUE, f, TRUE, "ok", s) :
            p \in Platforms, f \in {"none", "ok_dir"},
            s \in StreamLists(MaxStreams)}

NoProfile ==
    [frame_rate |-> <<>>, codec_name |-> "", has_audio |-> FALSE,
     audio_codec |-> ""]

ProbeFails(kind, msg) ==
    [err |-> [kind |-> kind, msg |-> msg], profile |-> NoProfile]

\* '/' in str(frame_rate)
HasSlash(s) == \E i \in 1..Len(s) : s[i] = "/"

\* the index of the last / first stream of a media type, 0 when there is none
LastOfType(streams, type) ==
    IF \E i \in 1..Len(streams) : streams[i].codec_type = type
    THEN CHOOSE i \in 1..Len(streams) :
            /\ streams[i].codec_type = type
            /\ \A j \in (i + 1)..Len(streams) : streams[j].codec_type # type
    ELSE 0

FirstOfType(streams, type) ==
    IF \E i \in 1..Len(streams) : streams[i].codec_type = type
    THEN CHOOSE i \in 1..Len(streams) :
            /\ streams[i].codec_type = type
            /\ \A j \in 1..(i - 1) : streams[j].codec_type # type
    ELSE 0

\* the frame rate of the profile
frame_rate_Raw(video_stream) ==
    IF video_stream.r_frame_rate # <<>> THEN video_stream.r_frame_rate
    ELSE IF video_stream.avg_frame_rate # <<>> THEN video_stream.avg_frame_rate
    ELSE DefaultRate

frame_rate(video_stream) ==
    LET fr == IF video_stream.r_frame_rate # <<>>
              THEN video_stream.r_frame_rate
              ELSE IF video_stream.avg_frame_rate # <<>>
                   THEN video_stream.avg_frame_rate
                   ELSE DefaultRate
    IN  IF fr = ZeroRate \/ fr = <<>> \/ ~HasSlash(fr)
        THEN DefaultRate
        ELSE fr

\* the streams of the parsed output made into a profile
ProfileOf(streams) ==
    LET v == FirstOfType(streams, "video")
        a == FirstOfType(streams, "audio")
    IN  IF v = 0
        THEN ProbeFails("RuntimeError", "no_video_stream")
        ELSE [err |-> [kind |-> "none", msg |-> ""],
              profile |-> [frame_rate |-> frame_rate(streams[v]),
                           codec_name |-> streams[v].codec_name,
                           has_audio |-> a # 0,
                           audio_codec |-> IF a # 0
                                           THEN streams[a].codec_name
                                           ELSE ""]]

\* the ffprobe run and what get_video_info makes of its end
RunProbe(in) ==
    LET end == IF in.ffmpeg_path = "none" /\ ~in.tool_on_path
               THEN "cannot_start"
               ELSE in.run
    IN  IF in.platform = "Windows" /\ end \in {"cannot_start", "timeout"}
        THEN ProbeFails("RuntimeError", "cannot_start_ffprobe")
        ELSE IF end = "cannot_start"
        THEN ProbeFails("FileNotFoundError", "video_missing")
        ELSE IF end = "timeout"
        THEN ProbeFails("RuntimeError", "timeout")
        ELSE IF end = "nonzero"
        THEN ProbeFails("RuntimeError", "exit_code")
        ELSE IF end = "empty"
        THEN ProbeFails("RuntimeError", "empty_output")
        ELSE IF end = "not_json"
        THEN ProbeFails("RuntimeError", "not_json")
        ELSE ProfileOf(in.streams)

get_video_info(in) ==
    IF ~in.video_exists
    THEN ProbeFails("FileNotFoundError", "video_missing")
    ELSE IF in.ffmpeg_path = "bad_dir"
    THEN ProbeFails("FileNotFoundError", "ffmpeg_path_missing")
    ELSE IF in.ffmpeg_path = "no_ffprobe"
    THEN ProbeFails("FileNotFoundError", "ffprobe_not_in_dir")
    ELSE RunProbe(in)

InitProbe ==
    /\ PipelineAtRest
    /\ batch = BatchIdle
    /\ inst = InstIdle
    /\ enc = EncIdle
    /\ cv = CvIdle
    /\ mi = MiIdle
    /\ gui = GuiIdle
    /\ timing = TimingIdle
    /\ naming = NamingIdle
    /\ probe \in ProbeInputs

GetVideoInfo ==
    /\ probe.phase = "input"
    /\ probe' = [phase |-> "done", platform |-> probe.platform,
                 video_exists |-> probe.video_exists,
                 ffmpeg_path |-> probe.ffmpeg_path,
                 tool_on_path |-> probe.tool_on_path, run |-> probe.run,
                 streams |-> probe.streams,
                 err |-> get_video_info(probe).err,
                 profile |-> get_video_info(probe).profile]
    /\ UNCHANGED <<pipeVars, timing, naming, batch, inst, enc, cv, mi, gui>>

NextProbe == GetVideoInfo

SpecProbe == InitProbe /\ [][NextProbe]_vars


\* ============================== get_video_info: the two attempts on Windows

\* how one attempt (subprocess.run of ffprobe with one encoding) ends:
\* exit 0 with JSON output, exit 0 with other non-empty output, exit 0 with
\* empty output, a non-zero exit code, or an exception (timeout, OSError,
\* encoding error)
AttemptFates == {"exit0_json", "exit0_not_json", "exit0_empty", "nonzero", "raises"}

\* result.returncode == 0 and result.stdout and result.stdout.strip()
attempt_success(fate) == fate \in {"exit0_json", "exit0_not_json"}

\* a fallback that is skipped when the first attempt produced a result
second_attempt_made_OnlyOnException(first) == first = "raises"

\* the GBK attempt is made when the UTF-8 attempt was no success
second_attempt_made(first) == ~attempt_success(first)

\* result after the attempts: the second attempt's result replaces the
\* first's unless it raised; "none" is result = None
windows_result(first, second) ==
    IF ~second_attempt_made(first) THEN first
    ELSE IF second # "raises" THEN second
    ELSE IF first # "raises" THEN first
    ELSE "none"

\* what get_video_info makes of result
after_attempts(result, streams) ==
    IF result = "none"
    THEN ProbeFails("RuntimeError", "cannot_start_ffprobe")
    ELSE IF result = "nonzero"
    THEN ProbeFails("RuntimeError", "exit_code")
    ELSE IF result = "exit0_empty"
    THEN ProbeFails("RuntimeError", "empty_output")
    ELSE IF result = "exit0_not_json"
    THEN ProbeFails("RuntimeError", "not_json")
    ELSE ProfileOf(streams)

InitFallback ==
    /\ PipelineAtRest
    /\ timing = TimingIdle
    /\ naming = NamingIdle
    /\ batch = BatchIdle
    /\ inst = InstIdle
    /\ enc = EncIdle
    /\ cv = CvIdle
    /\ mi = MiIdle
    /\ gui = GuiIdle
    /\ \E first \in AttemptFates, second \in AttemptFates,
          streams \in StreamLists(1) :
          probe = [phase |-> "attempt_input", first |-> first,
                   second |-> second, streams |-> streams]

\* get_video_info on Windows, from the first attempt to its return
ProbeOnWindows ==
    /\ probe.phase = "attempt_input"
    /\ LET result == windows_result(probe.first, probe.second)
           out == after_attempts(result, probe.streams)
       IN  probe' = [phase |-> "attempt_done", first |-> probe.first,
                     second |-> probe.second, streams |-> probe.streams,
                     attempts |-> IF second_attempt_made(probe.first)
                                  THEN 2 ELSE 1,
                     result |-> result, err |-> out.err,
                     profile |-> out.profile]
    /\ UNCHANGED <<pipeVars, timing, naming, batch, inst, enc, cv, mi, gui>>

NextFallback == ProbeOnWindows

SpecFallback == InitFallback /\ [][NextFallback]_vars


\* ================================================== generate_output_path
\* The names of one source in the destination directory are numbered: 0 is
\* stem + suffix, k >= 1 is stem_k + suffix. "existing" holds the numbers of
\* the names that exist there.

MaxK == 3
MaxCalls == 3

\* a naming that appends _1 without looking further
generate_output_path_OneTry(existing) ==
    IF 0 \in existing THEN 1 ELSE 0

\* a loop body that runs at most once
FreeName_Stuck(existing, candidate, counter) ==
    IF candidate \in existing THEN counter ELSE candidate

\* the while loop: the candidate is tried, then stem_counter
RECURSIVE FreeName(_, _, _)
FreeName(existing, candidate, counter) ==
    IF candidate \in existing
    THEN FreeName(existing, counter, counter + 1)
    ELSE candidate

generate_output_path(existing) == FreeName(existing, 0, 1)

\* the source exists; it is in the destination directory when no output
\* directory is given
InitNaming ==
    /\ PipelineAtRest
    /\ batch = BatchIdle
    /\ inst = InstIdle
    /\ enc = EncIdle
    /\ cv = CvIdle
    /\ mi = MiIdle
    /\ gui = GuiIdle
    /\ timing = TimingIdle
    /\ probe = ProbeIdle
    /\ \E same_dir \in BOOLEAN, existing \in SUBSET (0..MaxK) :
          /\ same_dir => 0 \in existing
          /\ naming = [phase |-> "naming", same_dir |-> same_dir,
                       existing |-> existing, calls |-> <<>>,
                       created |-> FALSE]

\* generate_output_path(movie_path, output_dir); the call is remembered with
\* the directory it saw and whether a file was created at the path returned
\* by the call before it
GenerateOutputPath ==
    /\ naming.phase = "naming"
    /\ Len(naming.calls) < MaxCalls
    /\ naming' = [naming EXCEPT
            !.calls = Append(@, [k |-> generate_output_path(naming.existing),
                                 existing |-> naming.existing,
                                 after_create |-> naming.created]),
            !.created = FALSE]
    /\ UNCHANGED <<pipeVars, timing, probe, batch, inst, enc, cv, mi, gui>>

\* concat_videos writes the output file at the path returned last
CreateOutput ==
    /\ naming.phase = "naming"
    /\ naming.calls # <<>>
    /\ ~naming.created
    /\ naming' = [naming EXCEPT
            !.existing = @ \cup {naming.calls[Len(naming.calls)].k},
            !.created = TRUE]
    /\ UNCHANGED <<pipeVars, timing, probe, batch, inst, enc, cv, mi, gui>>

NextNaming ==
    \/ GenerateOutputPath
    \/ CreateOutput

SpecNaming == InitNaming /\ [][NextNaming]_vars


\* ============================================ process_video: the file loop
\* A file is the rank of its path in sorted order. One file's pipeline is
\* followed step by step; each step either completes, raises, or (for the
\* steps that wait for a process without a timeout) never returns.

MaxFiles == 3

FileSteps == <<"probe", "naming", "mkdtemp", "intro", "concat", "cleanup">>

\* steps that wait for ffmpeg without a timeout
UntimedSteps == {"intro", "concat"}

\* the lists of distinct files a run may be given
FileLists ==
    {f \in UNION {[1..n -> 1..MaxFiles] : n \in 0..MaxFiles} :
        \A i, j \in 1..Len(f) : i # j => f[i] # f[j]}

\* video_files.sort()
SortFiles(files) == SortSeq(files, LAMBDA a, b : a < b)

InitBatch ==
    /\ PipelineAtRest
    /\ timing = TimingIdle
    /\ probe = ProbeIdle
    /\ naming = NamingIdle
    /\ inst = InstIdle
    /\ enc = EncIdle
    /\ cv = CvIdle
    /\ mi = MiIdle
    /\ gui = GuiIdle
    /\ \E files \in FileLists :
          batch = [phase |-> "selected", files |-> files, video_files |-> <<>>,
                   idx |-> 1, step |-> 1, attempted |-> <<>>, processed |-> 0,
                   failed |-> <<>>]

\* the list of files is fixed and sorted; the loop starts
StartBatch ==
    /\ batch.phase = "selected"
    /\ batch' = [batch EXCEPT !.phase = "loop",
                              !.video_files = SortFiles(batch.files)]
    /\ UNCHANGED <<pipeVars, timing, probe, naming, inst, enc, cv, mi, gui>>

InFile ==
    /\ batch.phase = "loop"
    /\ batch.idx <= Len(batch.video_files)

\* the attempts made so far, with the current file's when it starts
Attempting(b) ==
    IF b.step = 1 THEN Append(b.attempted, b.video_files[b.idx])
    ELSE b.attempted

\* a handler that gives up the remaining files
after_failure_Stops(b, e) ==
    [b EXCEPT !.failed = Append(@, [name |-> b.video_files[b.idx], error |-> e]),
              !.attempted = Attempting(b),
              !.idx = Len(b.video_files) + 1,
              !.step = 1]

\* except Exception as e: failed.append((name, str(e))); continue
after_failure(b, e) ==
    [b EXCEPT !.failed = Append(@, [name |-> b.video_files[b.idx], error |-> e]),
              !.attempted = Attempting(b),
              !.idx = @ + 1,
              !.step = 1]

\* a step of the current file's pipeline completes; after the last one the
\* file counts as processed
FileStepOk ==
    /\ InFile
    /\ batch' = IF batch.step < Len(FileSteps)
                THEN [batch EXCEPT !.step = @ + 1,
                                   !.attempted = Attempting(batch)]
                ELSE [batch EXCEPT !.processed = @ + 1,
                                   !.attempted = Attempting(batch),
                                   !.idx = @ + 1,
                                   !.step = 1]
    /\ UNCHANGED <<pipeVars, timing, probe, naming, inst, enc, cv, mi, gui>>

\* a step of the current file's pipeline raises
FileStepRaises ==
    /\ InFile
    /\ batch' = after_failure(batch, FileSteps[batch.step])
    /\ UNCHANGED <<pipeVars, timing, probe, naming, inst, enc, cv, mi, gui>>

\* the process a step waits for never exits
FileStepHangs ==
    /\ InFile
    /\ FileSteps[batch.step] \in UntimedSteps
    /\ batch' = [batch EXCEPT !.phase = "blocked",
                              !.attempted = Attempting(batch)]
    /\ UNCHANGED <<pipeVars, timing, probe, naming, inst, enc, cv, mi, gui>>

\* the loop is over: the result is reported
EndBatch ==
    /\ batch.phase = "loop"
    /\ batch.idx > Len(batch.video_files)
    /\ batch' = [batch EXCEPT !.phase = "ended"]
    /\ UNCHANGED <<pipeVars, timing, probe, naming, inst, enc, cv, mi, gui>>

NextBatch ==
    \/ StartBatch
    \/ FileStepOk
    \/ FileStepRaises
    \/ FileStepHangs
    \/ EndBatch

SpecBatch == InitBatch /\ [][NextBatch]_vars


\* ================================= pipeline instances for different files
\* Two instances, each for its own source file. Started by the command line
\* driver they are two processes that may run side by side; started by the
\* GUI they are two rounds of one loop in one process.

SourceDirs == {"d1", "d2"}
SourceStems == {"a", "b"}
SourceExts == {".mp4", ".mkv"}
Sources == [dir : SourceDirs, stem : SourceStems, ext : SourceExts]

Instances == {1, 2}

NoPath == [dir |-> "", name |-> ""]

NewInstance == [pc |-> "new", temp_dir |-> "", intro_path |-> NoPath,
                read |-> 0]

\* tempfile.mkdtemp(): a directory that did not exist
mkdtemp(n) == IF n = 0 THEN "tmp1" ELSE "tmp2"

\* main: temp_dir = input_path.parent; process_video: Path(tempfile.mkdtemp())
temp_dir_of(drv, source, made) ==
    IF drv = "cli" THEN source.dir ELSE mkdtemp(made)

\* temp_dir / f"intro_temp_{stem}.mp4"
intro_path_of(dir, source) == [dir |-> dir, name |-> source.stem]

\* the process an instance runs in
ProcessOf(drv, i) == IF drv = "cli" THEN i ELSE 0

InitInstances ==
    /\ PipelineAtRest
    /\ timing = TimingIdle
    /\ probe = ProbeIdle
    /\ naming = NamingIdle
    /\ batch = BatchIdle
    /\ enc = EncIdle
    /\ cv = CvIdle
    /\ mi = MiIdle
    /\ gui = GuiIdle
    /\ \E drv \in Drivers, s1 \in Sources, s2 \in Sources :
          /\ s1 # s2
          /\ inst = [phase |-> "run", driver |-> drv,
                     source |-> <<s1, s2>>,
                     of |-> <<NewInstance, NewInstance>>,
                     made |-> 0,
                     clip |-> [p \in {} |-> 0],
                     cwd |-> [p \in 0..2 |-> "home"]]

\* the GUI loop takes a file when the file before it is finished
MayStart(i) ==
    inst.driver = "gui" => \A j \in Instances : j < i => inst.of[j].pc = "done"

\* the driver fixes the temporary directory and the intro clip's path
Allocate(i) ==
    /\ inst.phase = "run"
    /\ inst.of[i].pc = "new"
    /\ MayStart(i)
    /\ LET dir == temp_dir_of(inst.driver, inst.source[i], inst.made)
       IN  inst' = [inst EXCEPT
                !.of[i].pc = "allocated",
                !.of[i].temp_dir = dir,
                !.of[i].intro_path = intro_path_of(dir, inst.source[i]),
                !.made = IF inst.driver = "gui" THEN @ + 1 ELSE @]
    /\ UNCHANGED <<pipeVars, timing, probe, naming, batch, enc, cv, mi, gui>>

\* make_intro_video: os.chdir(temp_dir), the encoder writes the clip at
\* intro_path, the finally block restores the working directory
MakeIntro(i) ==
    /\ inst.phase = "run"
    /\ inst.of[i].pc \in {"allocated", "in_temp_dir"}
    /\ LET p == ProcessOf(inst.driver, i)
           path == inst.of[i].intro_path
       IN  IF inst.of[i].pc = "allocated"
           THEN inst' = [inst EXCEPT !.of[i].pc = "in_temp_dir",
                                     !.cwd[p] = inst.of[i].temp_dir]
           ELSE inst' = [inst EXCEPT
                    !.of[i].pc = "intro_made",
                    !.clip = [q \in DOMAIN inst.clip \cup {path} |->
                                IF q = path THEN i ELSE inst.clip[q]],
                    !.cwd[p] = "home"]
    /\ UNCHANGED <<pipeVars, timing, probe, naming, batch, enc, cv, mi, gui>>

\* concat_videos reads the clip found at intro_path (0: there is none)
Concat(i) ==
    /\ inst.phase = "run"
    /\ inst.of[i].pc = "intro_made"
    /\ LET path == inst.of[i].intro_path
       IN  inst' = [inst EXCEPT
                !.of[i].pc = "concatenated",
                !.of[i].read = IF path \in DOMAIN inst.clip
                               THEN inst.clip[path] ELSE 0]
    /\ UNCHANGED <<pipeVars, timing, probe, naming, batch, enc, cv, mi, gui>>

\* the driver removes the clip at intro_path
RemoveIntro(i) ==
    /\ inst.phase = "run"
    /\ inst.of[i].pc = "concatenated"
    /\ LET path == inst.of[i].intro_path
       IN  inst' = [inst EXCEPT
                !.of[i].pc = "done",
                !.clip = [q \in DOMAIN inst.clip \ {path} |-> inst.clip[q]]]
    /\ UNCHANGED <<pipeVars, timing, probe, naming, batch, enc, cv, mi, gui>>

NextInstances ==
    \/ \E i \in Instances : Allocate(i)
    \/ \E i \in Instances : MakeIntro(i)
    \/ \E i \in Instances : Concat(i)
    \/ \E i \in Instances : RemoveIntro(i)

SpecInstances == InitInstances /\ [][NextInstances]_vars


\* ================================================= selection of the encoder

\* the codec names of the selection table, their aliases and some names
\* outside it, each in lower and in upper case
LowerCodecNames ==
    {"h264", "avc", "x264", "hevc", "h265", "x265", "vp8", "vp9", "av1",
     "mpeg4", "mp4v", "mpeg2", "mpeg2video", "prores", "theora", "xyz"}

CodecNames == LowerCodecNames \cup {p[1] : p \in UpperSpellings}

InitCodec ==
    /\ PipelineAtRest
    /\ timing = TimingIdle
    /\ probe = ProbeIdle
    /\ naming = NamingIdle
    /\ batch = BatchIdle
    /\ inst = InstIdle
    /\ cv = CvIdle
    /\ mi = MiIdle
    /\ gui = GuiIdle
    /\ \E c \in CodecNames, a \in BOOLEAN :
          enc = [phase |-> "probed",
                 video_info |-> [codec_name |-> c, has_audio |-> a]]

\* make_intro_video builds the encoder's command line from the profile
SelectEncoder ==
    /\ enc.phase = "probed"
    /\ enc' = [phase |-> "selected", video_info |-> enc.video_info,
               cmd |-> EncodeCmd(enc.video_info)]
    /\ UNCHANGED <<pipeVars, timing, probe, naming, batch, inst, cv, mi, gui>>

NextCodec == SelectEncoder

SpecCodec == InitCodec /\ [][NextCodec]_vars


\* ======================================= concat_videos: progress and hints

MaxLines == 2        \* progress lines read from the concatenation's output

\* keywords the concatenation's output may hold
Keywords == {"codec", "stream", "mismatch", "duration"}

\* total_duration as passed by the driver (0: None or unknown), in seconds
TotalDurations == {0, 100}

\* the time= readings of the concatenation's progress lines, in seconds
TimeReadings == {0, 50, 100, 200}

\* sizes of the intro clip, the source and the output seen by the validation
CvSizes == {0, 1, 5, 9, 10}

\* the names bound in concat_videos when the size validation runs
BoundNames ==
    {"temp_dir", "intro_ts", "movie_ts", "output_ts", "ffmpeg_cmd",
     "intro_info", "movie_info", "concat_list_path", "cmd3", "process",
     "output_lines", "output_text", "cmd4", "intro_size", "movie_size",
     "output_size", "expected_min_size", "error_details"}

\* "kw in output_lower" for the keywords of a captured text
InText(kw, text) == kw \in text

\* concat_videos: progress of the concatenation read from a time= line
concat_progress(current_time, total_duration) ==
    Min(80, 20 + ((current_time * 60) \div total_duration))

\* concat_videos: error_details of the "output too small" failure; the text
\* is read through the name concat_output_text, and a NameError raised by
\* the read is caught by the bare except around it
size_error_details(text) ==
    IF "concat_output_text" \notin BoundNames
    THEN "generic"
    ELSE CASE InText("codec", text) -> "codec"
           [] InText("stream", text) \/ InText("mismatch", text) -> "stream"
           [] InText("duration", text) -> "duration"
           [] OTHER -> "generic"

\* progress_callback(p, m), when a callback was passed
Emit(c, p, m) ==
    IF c.progress_callback THEN Append(c.events, [p |-> p, m |-> m])
    ELSE c.events

\* concat_videos: progress_callback(100, done) after the conversion to MP4
emit_done(c) == Emit(c, 100, "done")

CvRaise(c, kind, hint) ==
    [c EXCEPT !.phase = "raised", !.raised = kind, !.hint = hint]

InitConcat ==
    /\ PipelineAtRest
    /\ timing = TimingIdle
    /\ probe = ProbeIdle
    /\ naming = NamingIdle
    /\ batch = BatchIdle
    /\ inst = InstIdle
    /\ enc = EncIdle
    /\ mi = MiIdle
    /\ gui = GuiIdle
    /\ \E cb \in BOOLEAN, td \in TotalDurations :
          cv = [phase |-> "start", progress_callback |-> cb,
                total_duration |-> td, events |-> <<>>, lines |-> 0,
                output_text |-> {}, raised |-> "none", hint |-> "none"]

\* find_ffmpeg_executable and the two get_video_info calls, before any event
CvSetup ==
    /\ cv.phase = "start"
    /\ \/ cv' = [cv EXCEPT !.phase = "ts_intro"]
       \/ cv' = CvRaise(cv, "probe", "none")
    /\ UNCHANGED <<pipeVars, timing, probe, naming, batch, inst, enc, mi, gui>>

\* cmd1 and cmd2: progress 0 / 10, then subprocess.run(check=True)
CvToTs ==
    /\ cv.phase \in {"ts_intro", "ts_movie"}
    /\ LET p == IF cv.phase = "ts_intro" THEN 0 ELSE 10
           c == [cv EXCEPT !.events = Emit(cv, p, cv.phase)]
       IN  \/ cv' = [c EXCEPT !.phase = IF cv.phase = "ts_intro"
                                        THEN "ts_movie" ELSE "concat"]
           \/ cv' = CvRaise(c, "remux", "none")
    /\ UNCHANGED <<pipeVars, timing, probe, naming, batch, inst, enc, mi, gui>>

\* cmd3 is started: progress 20, Popen
CvConcatStart ==
    /\ cv.phase = "concat"
    /\ cv' = [cv EXCEPT !.phase = "reading", !.events = Emit(cv, 20, "concat")]
    /\ UNCHANGED <<pipeVars, timing, probe, naming, batch, inst, enc, mi, gui>>

\* one line of cmd3's output with a time= reading
CvReadLine ==
    /\ cv.phase = "reading"
    /\ cv.lines < MaxLines
    /\ \E t \in TimeReadings :
          cv' = [cv EXCEPT
                   !.lines = @ + 1,
                   !.events =
                       IF cv.progress_callback /\ cv.total_duration # 0
                       THEN Emit(cv, concat_progress(t, cv.total_duration),
                                 "concat_time")
                       ELSE @]
    /\ UNCHANGED <<pipeVars, timing, probe, naming, batch, inst, enc, mi, gui>>

\* cmd3 exits: its output is kept in output_text; exit 0 goes on to cmd4
CvConcatEnd ==
    /\ cv.phase = "reading"
    /\ \E text \in SUBSET Keywords :
          \/ cv' = [cv EXCEPT !.phase = "to_mp4", !.output_text = text]
          \/ cv' = CvRaise([cv EXCEPT !.output_text = text], "remux", "none")
    /\ UNCHANGED <<pipeVars, timing, probe, naming, batch, inst, enc, mi, gui>>

\* cmd4: progress 80, subprocess.run(check=True), progress 100
CvToMp4 ==
    /\ cv.phase = "to_mp4"
    /\ LET c == [cv EXCEPT !.events = Emit(cv, 80, "to_mp4")]
       IN  \/ cv' = [c EXCEPT !.phase = "validate", !.events = emit_done(c)]
           \/ cv' = CvRaise(c, "remux", "none")
    /\ UNCHANGED <<pipeVars, timing, probe, naming, batch, inst, enc, mi, gui>>

\* the validation of the output's existence and size
CvValidateSize ==
    /\ cv.phase = "validate"
    /\ \E exists \in BOOLEAN, intro_size \in {0, 1}, movie_size \in CvSizes,
          output_size \in CvSizes :
          IF ~exists
          THEN cv' = CvRaise(cv, "output_missing", "none")
          ELSE IF output_size <= intro_size
          THEN cv' = CvRaise(cv, "not_above_intro", "none")
          ELSE IF 10 * output_size < 9 * (intro_size + movie_size)
          THEN cv' = CvRaise(cv, "too_small", size_error_details(cv.output_text))
          ELSE cv' = [cv EXCEPT !.phase = "validate_duration"]
    /\ UNCHANGED <<pipeVars, timing, probe, naming, batch, inst, enc, mi, gui>>

\* the validation of the duration: whatever it finds becomes a warning
CvValidateDuration ==
    /\ cv.phase = "validate_duration"
    /\ cv' = [cv EXCEPT !.phase = "returned"]
    /\ UNCHANGED <<pipeVars, timing, probe, naming, batch, inst, enc, mi, gui>>

NextConcat ==
    \/ CvSetup
    \/ CvToTs
    \/ CvConcatStart
    \/ CvReadLine
    \/ CvConcatEnd
    \/ CvToMp4
    \/ CvValidateSize
    \/ CvValidateDuration

SpecConcat == InitConcat /\ [][NextConcat]_vars


\* ============================================================== font size

MaxHeight == 1080    \* video heights range over 1..MaxHeight

\* calculate_font_size: int(height * 0.055); int() drops the fraction, and
\* height * 0.055 = height * 11 / 200
calculate_font_size(height) == (height * 11) \div 200

InitFont ==
    /\ PipelineAtRest
    /\ timing = TimingIdle
    /\ probe = ProbeIdle
    /\ naming = NamingIdle
    /\ batch = BatchIdle
    /\ inst = InstIdle
    /\ cv = CvIdle
    /\ mi = MiIdle
    /\ gui = GuiIdle
    /\ \E height \in 1..MaxHeight :
          enc = [phase |-> "font_input", height |-> height]

\* make_intro_video: font_size = calculate_font_size(height)
CalculateFontSize ==
    /\ enc.phase = "font_input"
    /\ enc' = [phase |-> "font_done", height |-> enc.height,
               font_size |-> calculate_font_size(enc.height)]
    /\ UNCHANGED <<pipeVars, timing, probe, naming, batch, inst, cv, mi, gui>>

NextFont == CalculateFontSize

SpecFont == InitFont /\ [][NextFont]_vars


\* ========================= make_intro_video: working directory and progress

\* directories the process may be in or be given as temp_dir
Dirs == {"/home/user", "/tmp/tmpa", "/videos"}

\* the time= readings of the encoder's progress lines, in ms
IntroReadings == {0, 1500, 3000, 4000}

\* make_intro_video: progress of the encoder read from a time= line
intro_progress(current_time, duration) ==
    Min(100, (current_time * 100) \div duration)

\* a finally block that leaves the process where the encoder ran
restore_cwd_Missing(m) == m.cwd

\* make_intro_video, finally: os.chdir(original_cwd)
restore_cwd(m) == m.original_cwd

\* an exit of make_intro_video from inside the try statement: the finally
\* block runs, then the call returns or raises
MiLeave(m, phase, raised) ==
    [m EXCEPT !.phase = phase, !.raised = raised, !.cwd = restore_cwd(m)]

InitIntro ==
    /\ PipelineAtRest
    /\ timing = TimingIdle
    /\ probe = ProbeIdle
    /\ naming = NamingIdle
    /\ batch = BatchIdle
    /\ inst = InstIdle
    /\ enc = EncIdle
    /\ cv = CvIdle
    /\ gui = GuiIdle
    /\ \E cwd \in Dirs, temp_dir \in Dirs, cb \in BOOLEAN, d \in Durations :
          mi = [phase |-> "called", cwd |-> cwd, at_call |-> cwd,
                original_cwd |-> "", temp_dir |-> temp_dir,
                progress_callback |-> cb,
                effective_duration |-> d, events |-> <<>>, lines |-> 0,
                raised |-> "none"]

\* the font is copied into temp_dir unless it is there already; a failed
\* copy raises before the directory is changed
MiCopyFont ==
    /\ mi.phase = "called"
    /\ \/ mi' = [mi EXCEPT !.phase = "prepared"]
       \/ mi' = [mi EXCEPT !.phase = "raised", !.raised = "font_copy"]
    /\ UNCHANGED <<pipeVars, timing, probe, naming, batch, inst, enc, cv, gui>>

\* original_cwd = os.getcwd(); os.chdir(temp_dir), which raises OSError when
\* the directory cannot be entered
MiChdir ==
    /\ mi.phase = "prepared"
    /\ LET m == [mi EXCEPT !.original_cwd = mi.cwd]
       IN  \/ mi' = [m EXCEPT !.phase = "encoding", !.cwd = mi.temp_dir]
           \/ mi' = MiLeave(m, "raised", "chdir")
    /\ UNCHANGED <<pipeVars, timing, probe, naming, batch, inst, enc, cv, gui>>

\* one line of the encoder's output with a time= reading
MiReadLine ==
    /\ mi.phase = "encoding"
    /\ mi.lines < MaxLines
    /\ \E t \in IntroReadings :
          mi' = [mi EXCEPT
                   !.lines = @ + 1,
                   !.events =
                       IF mi.progress_callback
                       THEN Append(@, intro_progress(t, mi.effective_duration))
                       ELSE @]
    /\ UNCHANGED <<pipeVars, timing, probe, naming, batch, inst, enc, cv, gui>>

\* the encoder cannot be started, exits non-zero, or exits 0 (the check of
\* the clip's duration only warns)
MiEncoderEnds ==
    /\ mi.phase = "encoding"
    /\ \/ /\ mi.lines = 0
          /\ mi' = MiLeave(mi, "raised", "popen")
       \/ mi' = MiLeave(mi, "raised", "encoder")
       \/ mi' = MiLeave(mi, "returned", "none")
    /\ UNCHANGED <<pipeVars, timing, probe, naming, batch, inst, enc, cv, gui>>

NextIntro ==
    \/ MiCopyFont
    \/ MiChdir
    \/ MiReadLine
    \/ MiEncoderEnds

SpecIntro == InitIntro /\ [][NextIntro]_vars


\* ================================ GUI: progress events of a processing run

MaxTotal == 3        \* a run processes 1..MaxTotal files

\* time= readings of the encoder (ms, for a clip of DefaultMinDuration) and
\* of the concatenation (s, for a total duration of GuiTotalDuration)
GuiIntroReadings == {1500, 4000}
GuiConcatReadings == {50, 200}
GuiTotalDuration == 100

\* the places of one file's pipeline where progress_callback is called
ProgressStages ==
    <<"intro", "ts_intro", "ts_movie", "concat", "concat_time", "to_mp4", "done">>

\* the percentages a stage may pass to progress_callback
StagePercents(stage) ==
    CASE stage = "intro" ->
            {intro_progress(t, DefaultMinDuration) : t \in GuiIntroReadings}
      [] stage = "ts_intro" -> {0}
      [] stage = "ts_movie" -> {10}
      [] stage = "concat" -> {20}
      [] stage = "concat_time" ->
            {concat_progress(t, GuiTotalDuration) : t \in GuiConcatReadings}
      [] stage = "to_mp4" -> {80}
      [] OTHER -> {100}

\* a callback that adds the file's percentage to the files before it
overall_progress_NotScaled(file_idx, total, p) ==
    (((file_idx - 1) * 100) \div total) + p

\* make_progress_callback: int((file_idx - 1) * 100 / total + p / total)
overall_progress(file_idx, total, p) ==
    (((file_idx - 1) * 100) + p) \div total

\* root.after(ms, callback): the callback is queued behind every callback
\* that is due no later
after(queue, ms, callback) ==
    LET e == [callback EXCEPT !.ms = ms]
        due == {i \in 1..Len(queue) : queue[i].ms <= ms}
        k == IF due = {} THEN 0 ELSE CHOOSE i \in due : \A j \in due : j <= i
    IN  SubSeq(queue, 1, k) \o <<e>> \o SubSeq(queue, k + 1, Len(queue))

\* update_progress: root.after(0, _update)
update_progress(queue, callback) == after(queue, 0, callback)

InitProgress ==
    /\ PipelineAtRest
    /\ timing = TimingIdle
    /\ probe = ProbeIdle
    /\ naming = NamingIdle
    /\ batch = BatchIdle
    /\ inst = InstIdle
    /\ enc = EncIdle
    /\ cv = CvIdle
    /\ mi = MiIdle
    /\ \E total \in 1..MaxTotal :
          gui = [phase |-> "progress", total |-> total, idx |-> 1, stage |-> 1,
                 n |-> 0, queue |-> <<>>, shown |-> <<>>]

\* the worker moves on from a stage: to the file's next stage, to the next
\* file, or to the end of the loop
NextStage(g) ==
    IF g.stage < Len(ProgressStages)
    THEN [g EXCEPT !.stage = @ + 1]
    ELSE IF g.idx < g.total
    THEN [g EXCEPT !.idx = @ + 1, !.stage = 1, !.n = 0]
    ELSE [g EXCEPT !.idx = @ + 1, !.stage = 1, !.n = 0, !.phase = "progress_end"]

\* the worker thread calls the file's progress callback
EmitProgress ==
    /\ gui.phase = "progress"
    /\ \E p \in StagePercents(ProgressStages[gui.stage]) :
          LET callback == [idx |-> gui.idx, n |-> gui.n + 1, p |-> p,
                           value |-> overall_progress(gui.idx, gui.total, p),
                           ms |-> 0]
              g == [gui EXCEPT !.n = @ + 1,
                               !.queue = update_progress(@, callback)]
          IN  gui' = NextStage(g)
    /\ UNCHANGED <<pipeVars, timing, probe, naming, batch, inst, enc, cv, mi>>

\* the encoder or the concatenation prints no time= line (or total_duration
\* is unknown)
NoTimeLine ==
    /\ gui.phase = "progress"
    /\ ProgressStages[gui.stage] \in {"intro", "concat_time"}
    /\ gui' = NextStage(gui)
    /\ UNCHANGED <<pipeVars, timing, probe, naming, batch, inst, enc, cv, mi>>

\* the main loop runs the first queued _update: progress_bar['value'] = progress
RunUpdate ==
    /\ gui.phase \in {"progress", "progress_end"}
    /\ gui.queue # <<>>
    /\ gui' = [gui EXCEPT !.queue = Tail(@), !.shown = Append(@, Head(gui.queue))]
    /\ UNCHANGED <<pipeVars, timing, probe, naming, batch, inst, enc, cv, mi>>

NextProgress ==
    \/ EmitProgress
    \/ NoTimeLine
    \/ RunUpdate

SpecProgress == InitProgress /\ [][NextProgress]_vars


\* =================================== GUI: start requests and worker threads

MaxRuns == 2         \* processing runs started in one session

\* the number of files of a run
RunFiles == {1, 2}

\* the positions before the finally block: the work on the files and its report
AtWork == {"setup", "file", "summary", "except"}

Callback(kind) == [kind |-> kind, ms |-> 0]

\* a start request that does not look at is_processing
may_start_Always(g) == TRUE

\* start_processing: "if self.is_processing: showwarning; return"
may_start(g) == ~g.is_processing

\* a finally block that does not tell the main loop
post_processing_done_Dropped(queue) == queue

\* process_video, finally: self.root.after(0, self.processing_done)
post_processing_done(queue) == after(queue, 0, Callback("processing_done"))

\* the message boxes: root.after(0, ...)
post(queue, kind) == after(queue, 0, Callback(kind))

InitGui ==
    /\ PipelineAtRest
    /\ timing = TimingIdle
    /\ probe = ProbeIdle
    /\ naming = NamingIdle
    /\ batch = BatchIdle
    /\ inst = InstIdle
    /\ enc = EncIdle
    /\ cv = CvIdle
    /\ mi = MiIdle
    /\ gui = [phase |-> "app", is_processing |-> FALSE, button |-> "normal",
              workers |-> <<>>, queue |-> <<>>, last_start |-> "none"]

\* start_processing on the main thread: refused while a run is under way or
\* when an input is missing; otherwise the flag is set, the button disabled
\* and a worker thread started
StartProcessing ==
    /\ gui.phase = "app"
    /\ IF ~may_start(gui)
       THEN gui' = [gui EXCEPT !.last_start = "busy"]
       ELSE \/ gui' = [gui EXCEPT !.last_start = "invalid"]
            \/ /\ Len(gui.workers) < MaxRuns
               /\ gui' = [gui EXCEPT
                            !.last_start = "started",
                            !.is_processing = TRUE,
                            !.button = "disabled",
                            !.workers = Append(@, [pc |-> "setup", left |-> 0,
                                                   failed |-> 0,
                                                   outcome |-> "running"])]
    /\ UNCHANGED <<pipeVars, timing, probe, naming, batch, inst, enc, cv, mi>>

\* process_video: the parameters are read and the tools checked; a failed
\* check raises Exception
WorkerSetup(i) ==
    /\ gui.workers[i].pc = "setup"
    /\ \/ \E n \in RunFiles :
             gui' = [gui EXCEPT !.workers[i].pc = "file",
                                !.workers[i].left = n]
       \/ gui' = [gui EXCEPT !.workers[i].pc = "except",
                             !.workers[i].outcome = "setup_failed"]

\* one file of the loop: it succeeds or its exception is recorded
WorkerFile(i) ==
    /\ gui.workers[i].pc = "file"
    /\ \E ok \in BOOLEAN :
          gui' = [gui EXCEPT
                    !.workers[i].left = @ - 1,
                    !.workers[i].failed = IF ok THEN @ ELSE @ + 1,
                    !.workers[i].pc = IF gui.workers[i].left = 1
                                      THEN "summary" ELSE "file"]

\* after the loop: the message box of the result is queued
WorkerSummary(i) ==
    /\ gui.workers[i].pc = "summary"
    /\ gui' = [gui EXCEPT
                 !.workers[i].pc = "finally",
                 !.workers[i].outcome = IF gui.workers[i].failed = 0
                                        THEN "all_succeeded" ELSE "some_failed",
                 !.queue = post(@, "messagebox")]

\* except Exception: the error box is queued
WorkerExcept(i) ==
    /\ gui.workers[i].pc = "except"
    /\ gui' = [gui EXCEPT !.workers[i].pc = "finally",
                          !.queue = post(@, "messagebox")]

\* finally: self.is_processing = False
WorkerFinally(i) ==
    /\ gui.workers[i].pc = "finally"
    /\ gui' = [gui EXCEPT !.workers[i].pc = "post_done",
                          !.is_processing = FALSE]

\* finally: self.root.after(0, self.processing_done); the thread ends
WorkerPostDone(i) ==
    /\ gui.workers[i].pc = "post_done"
    /\ gui' = [gui EXCEPT !.workers[i].pc = "exited",
                          !.queue = post_processing_done(@)]

\* a worker thread takes its next step
WorkerStep ==
    /\ gui.phase = "app"
    /\ \E i \in 1..Len(gui.workers) :
          \/ WorkerSetup(i)
          \/ WorkerFile(i)
          \/ WorkerSummary(i)
          \/ WorkerExcept(i)
          \/ WorkerFinally(i)
          \/ WorkerPostDone(i)
    /\ UNCHANGED <<pipeVars, timing, probe, naming, batch, inst, enc, cv, mi>>

\* the main loop runs the first queued callback; processing_done enables
\* the start button again
MainLoopRun ==
    /\ gui.phase = "app"
    /\ gui.queue # <<>>
    /\ gui' = [gui EXCEPT
                 !.queue = Tail(@),
                 !.button = IF Head(gui.queue).kind = "processing_done"
                            THEN "normal" ELSE @]
    /\ UNCHANGED <<pipeVars, timing, probe, naming, batch, inst, enc, cv, mi>>

NextGui ==
    \/ StartProcessing
    \/ WorkerStep
    \/ MainLoopRun

SpecGui == InitGui /\ [][NextGui]_vars

\* every thread that can run gets to run, and the main loop keeps running
SpecGuiFair == SpecGui /\ WF_vars(WorkerStep) /\ WF_vars(MainLoopRun)


\* =============================================================== claims

Returned == pc \in {"drv_end", "done"}

\* C1: when the remux succeeded and the size checks passed, a probed output
\* duration less than or equal to the probed source duration makes
\* concat_videos fail with an error.
C1_DurationFailureRaises ==
    (pc = "drv_end" /\ durs.probed /\ durs.out <= durs.movie) => err.kind # "none"

\* C2: when the run has ended, a file exists at the output path only if the
\* pipeline did not fail (no partial or rejected output is left in place).
C2_NoOutputLeftOnFailure ==
    (pc = "done" /\ "output" \in fs) => err.kind = "none"

\* C3: after the remux succeeded, concat_videos fails the size validation
\* exactly when the output does not exist, or its size is <= the intro's size,
\* or its size is < 0.9 x (introSize + sourceSize); every other combination
\* passes.
C3_SizeChecks ==
    sizes.checked =>
        ((err.kind = "RuntimeError" /\ err.stage = "validate")
            <=> (\/ ~sizes.exists
                 \/ sizes.out <= sizes.intro
                 \/ 10 * sizes.out < 9 * (sizes.intro + sizes.movie)))

\* an output of exactly 0.9 x (introSize + sourceSize), larger than the intro,
\* passed the size validation
C3_Witness ==
    /\ sizes.checked /\ sizes.exists
    /\ sizes.out > sizes.intro
    /\ 10 * sizes.out = 9 * (sizes.intro + sizes.movie)
    /\ pc = "cv_dur"

\* the bitstream filter the claim C4 expects for a clip of the given codec
ExpectedBsf(codec) ==
    CASE codec = "h264" -> "h264_mp4toannexb"
      [] codec \in {"hevc", "h265"} -> "hevc_mp4toannexb"
      [] OTHER -> "none"

\* C4: the conversions of the intro and of the source to the transport stream
\* carry the h264 filter exactly for h264, the hevc filter exactly for
\* hevc/h265, and no bitstream filter for any other codec.
C4_BsfOnlyForH264AndHevc ==
    \A i \in 1..Len(log) :
        log[i].step \in {"intro_ts", "movie_ts"}
            => log[i].bsf = ExpectedBsf(log[i].src_codec)

\* C5: a remux invocation that exits non-zero is the last invocation started,
\* and concat_videos raises the remux RuntimeError carrying the text captured
\* from it.
C5_NonZeroExitAborts ==
    \A i \in 1..Len(log) :
        (log[i].step \in RemuxSteps /\ log[i].exit = "nonzero")
            => /\ i = Len(log)
               /\ Returned
               /\ err.kind = "RuntimeError" /\ err.stage = "remux"
               /\ (log[i].stderr # "" => err.msg = log[i].stderr)
               /\ (log[i].stderr = "" /\ log[i].stdout # "" => err.msg = log[i].stdout)

\* the source-to-TS conversion exited non-zero with text on stderr
C5_Witness ==
    /\ pc = "done"
    /\ Len(log) = 3
    /\ log[3].step = "movie_ts" /\ log[3].exit = "nonzero" /\ log[3].stderr = "codec"

\* C6: a remux sub-step that exceeds its timeout makes concat_videos fail with
\* the same failure kind as a non-zero exit, the remux RuntimeError.
C6_TimeoutIsRemuxFailure ==
    \A i \in 1..Len(log) :
        (log[i].step \in RemuxSteps /\ log[i].exit = "timeout" /\ Returned)
            => err.kind = "RuntimeError"

\* C7: whenever concat_videos waits for one of its remux invocations, the wait
\* can end: the process exits or a timeout ends it, also when the process
\* never exits.
C7_EveryRemuxWaitEnds ==
    pc \in {"cv_run1", "cv_run2", "cv_wait3", "cv_run4"} => ENABLED Next

C9_FontCopyRemoved ==
    (font_needs_cleanup /\ pc \notin {"mi_start", "mi_wait"}) => "font_copy" \notin fs

SourceDerived == {"movie", "movie_ts", "concat_list", "output_ts"}

SyntheticSources == {"lavfi_color", "lavfi_anullsrc"}

\* C10: every invocation of concat_videos, and every invocation that reads
\* the source or an intermediate derived from it, is a stream copy; the only
\* invocation that selects an encoder is the intro synthesis, which reads
\* synthetic sources only.
C10_OnlyIntroSynthesisEncodes ==
    \A i \in 1..Len(log) :
        /\ (log[i].step \in RemuxSteps \/ log[i].inputs \cap SourceDerived # {})
              => log[i].codec = "copy"
        /\ log[i].codec # "copy"
              => (log[i].step = "encode" /\ log[i].inputs \subseteq SyntheticSources)

\* a source with audio went through all five invocations
C10_Witness ==
    /\ Len(log) = 5
    /\ log[5].exit = "exit0"
    /\ log[1].inputs = SyntheticSources

\* C11: for every text, speed >= 0 and requested duration, in typewriter mode
\* and in static mode, the duration the intro is rendered with is never less
\* than the requested duration.
C11_EffectiveAtLeastRequested ==
    timing.phase = "planned" => timing.effective >= timing.duration

\* a typewriter intro whose reveal schedule needs more than was requested
C11_Witness ==
    /\ timing.phase = "planned"
    /\ timing.typewriter_effect
    /\ timing.effective > timing.duration

\* a planned typewriter intro whose text has only a first line
SingleLinePlanned ==
    /\ timing.phase = "planned"
    /\ timing.typewriter_effect
    /\ split(timing.text).line2 = <<>>

\* L x S + 0.5 for the planned text's first line
SingleLineNeed ==
    Len(split(timing.text).line1) * timing.speed + TrailingHold

\* C12 (as stated): for every text with only a first line of length L, speed S
\* and requested duration D (also below 3.0), the effective duration of the
\* typewriter intro is max(L x S + 0.5, D, 3.0), and for every text the
\* effective duration is never less than 3.0 seconds.
C12_FloorThreeSeconds ==
    /\ SingleLinePlanned =>
          timing.effective =
              Max(Max(SingleLineNeed, timing.duration), DefaultMinDuration)
    /\ timing.phase = "planned" => timing.effective >= DefaultMinDuration

\* C12 (amended): for every text with only a first line of length L, speed S
\* and requested duration D, the effective duration of the typewriter intro is
\* max(L x S + 0.5, D); this is max(L x S + 0.5, D, 3.0), and at least 3.0
\* seconds, whenever D >= 3.0.
C12_FloorIsRequested ==
    /\ SingleLinePlanned =>
          timing.effective = Max(SingleLineNeed, timing.duration)
    /\ (SingleLinePlanned /\ timing.duration >= DefaultMinDuration) =>
          timing.effective =
              Max(Max(SingleLineNeed, timing.duration), DefaultMinDuration)
    /\ (timing.phase = "planned" /\ timing.duration >= DefaultMinDuration) =>
          timing.effective >= DefaultMinDuration

\* a one-line typewriter intro requested shorter than 3.0 s and rendered
\* shorter than 3.0 s
C12_Witness ==
    /\ SingleLinePlanned
    /\ timing.text # <<>>
    /\ timing.duration < DefaultMinDuration
    /\ timing.effective < DefaultMinDuration

\* the text "A" / "BB"
TextA_BB == <<"a", NL, "a", "a">>

\* C13: for every two-line text (second line non-empty) with line lengths L1
\* and L2, speed S and requested duration D, the second line starts at
\* L1 x S + 0.2 and the effective duration is
\* max(L1 x S + 0.2 + L2 x S + 0.5, D); for "A" / "BB", S = 0.15, D = 3.0 the
\* second line starts at 0.35 and the effective duration is 3.0.
C13_TwoLineSchedule ==
    (/\ timing.phase = "planned"
     /\ timing.typewriter_effect
     /\ split(timing.text).line2 # <<>>) =>
        LET L1 == Len(split(timing.text).line1)
            L2 == Len(split(timing.text).line2)
            S == timing.speed
        IN  /\ timing.line2_start = L1 * S + 200
            /\ timing.effective =
                  Max(L1 * S + 200 + L2 * S + 500, timing.duration)
            /\ (timing.text = TextA_BB /\ S = 150 /\ timing.duration = 3000) =>
                  (timing.line2_start = 350 /\ timing.effective = 3000)

\* the planned typewriter intro "A" / "BB" at 0.15 s per character, 3.0 s
C13_Witness ==
    /\ timing.phase = "planned"
    /\ timing.typewriter_effect
    /\ timing.text = TextA_BB
    /\ timing.speed = 150
    /\ timing.duration = 3000
    /\ timing.line2_start = 350

\* get_video_info parsed the probe's output and found a video stream
ProfileReturned ==
    /\ probe.phase = "done"
    /\ probe.err.kind = "none"

\* C14: for every probe output with a video stream, the profile's frame rate
\* is the stream's r_frame_rate when present, otherwise its avg_frame_rate when
\* present, otherwise 25/1, and a value that is 0/0 or has no '/' is replaced
\* by 25/1; no returned profile has frame rate 0/0 (r_frame_rate "0/0" yields
\* "25/1").
C14_FrameRateNormalised ==
    ProfileReturned =>
        LET v == probe.streams[FirstOfType(probe.streams, "video")]
            preferred == IF v.r_frame_rate # <<>> THEN v.r_frame_rate
                         ELSE IF v.avg_frame_rate # <<>> THEN v.avg_frame_rate
                         ELSE DefaultRate
        IN  /\ (preferred = ZeroRate \/ ~HasSlash(preferred)) =>
                  probe.profile.frame_rate = DefaultRate
            /\ (preferred # ZeroRate /\ HasSlash(preferred)) =>
                  probe.profile.frame_rate = preferred
            /\ probe.profile.frame_rate # ZeroRate
            /\ v.r_frame_rate = ZeroRate =>
                  probe.profile.frame_rate = DefaultRate

\* a profile made from a video stream whose r_frame_rate is "0/0" and whose
\* avg_frame_rate is a usable rate
C14_Witness ==
    /\ ProfileReturned
    /\ LET v == probe.streams[FirstOfType(probe.streams, "video")]
       IN  /\ v.r_frame_rate = ZeroRate
           /\ v.avg_frame_rate = <<"3", "0", "/", "1">>
    /\ probe.profile.frame_rate = DefaultRate

\* get_video_info ran ffprobe to a zero exit and parsed its output
OutputParsed ==
    /\ probe.phase = "done"
    /\ probe.video_exists
    /\ probe.ffmpeg_path \in {"none", "ok_dir"}
    /\ probe.tool_on_path
    /\ probe.run = "ok"

\* C15: if the probe output has no stream of media type video (even when it
\* has audio streams), get_video_info fails with an error and returns no
\* profile; otherwise the profile describes the first video stream in stream
\* order and, if there is one, the first audio stream.
C15_FirstVideoStreamOrError ==
    OutputParsed =>
        LET s == probe.streams
            videos == {i \in 1..Len(s) : s[i].codec_type = "video"}
            audios == {i \in 1..Len(s) : s[i].codec_type = "audio"}
        IN  /\ videos = {} =>
                  (probe.err.kind # "none" /\ probe.profile = NoProfile)
            /\ videos # {} =>
                  /\ probe.err.kind = "none"
                  /\ \E v \in videos :
                        /\ \A w \in videos : v <= w
                        /\ probe.profile.codec_name = s[v].codec_name
                        /\ probe.profile.frame_rate = frame_rate(s[v])
                  /\ probe.profile.has_audio = (audios # {})
                  /\ audios # {} =>
                        \E a \in audios :
                            /\ \A b \in audios : a <= b
                            /\ probe.profile.audio_codec = s[a].codec_name

\* the probe's output had audio streams and no video stream
C15_Witness ==
    /\ OutputParsed
    /\ Len(probe.streams) = 2
    /\ \A i \in 1..2 : probe.streams[i].codec_type = "audio"
    /\ probe.err.msg = "no_video_stream"

\* C16: a probe failure caused by the prober executable being missing (the
\* tool cannot be started) is reported as an environment problem that names
\* the missing tool, distinguishable from the failure reported for a missing
\* media file.
C16_MissingToolDistinguishable ==
    (/\ probe.phase = "done"
     /\ probe.video_exists
     /\ probe.ffmpeg_path = "none"
     /\ ~probe.tool_on_path) =>
        probe.err # ProbeFails("FileNotFoundError", "video_missing").err

\* make_intro_video has returned or raised after its encoder exited non-zero
EncoderFailed ==
    /\ Returned
    /\ log # <<>>
    /\ log[Len(log)].step = "encode"
    /\ log[Len(log)].exit = "nonzero"

\* C17: if the encoder process started by make_intro_video exits non-zero,
\* make_intro_video raises an encode failure (RuntimeError) and that failure
\* carries the diagnostic text the encoder emitted.
C17_EncodeFailureCarriesDiagnostic ==
    EncoderFailed =>
        /\ err.kind = "RuntimeError"
        /\ err.stage = "encode"
        /\ log[Len(log)].stdout # "" => err.msg = log[Len(log)].stdout

NamingCalls ==
    IF naming.phase = "naming"
    THEN {naming.calls[i] : i \in 1..Len(naming.calls)}
    ELSE {}

\* C19: generate_output_path returns the source's base name and extension in
\* the destination directory; if that name exists it returns base_k.ext for
\* the smallest k >= 1 whose name does not exist; the returned path never
\* exists at the time of return, so it is never the source path when the
\* destination is the source's own directory.
C19_SmallestFreeName ==
    \A c \in NamingCalls :
        /\ 0 \notin c.existing => c.k = 0
        /\ 0 \in c.existing =>
              /\ c.k >= 1
              /\ \A j \in 1..(c.k - 1) : j \in c.existing
        /\ c.k \notin c.existing
        /\ naming.same_dir => c.k # 0

\* a call that found the unsuffixed name, _1 and _2 taken and returned _3
C19_Witness ==
    \E c \in NamingCalls :
        /\ {0, 1, 2} \subseteq c.existing
        /\ c.k = 3

\* C20 (as stated): two calls for the same source and directory with no file
\* created in between return the same path; after a file is created at the
\* first returned path, the next call returns the path with suffix _1.
C20_SecondCallReturnsSuffix1 ==
    naming.phase = "naming" =>
        \A i \in 2..Len(naming.calls) :
            /\ ~naming.calls[i].after_create =>
                  naming.calls[i].k = naming.calls[i - 1].k
            /\ naming.calls[i].after_create => naming.calls[i].k = 1

\* C20 (amended): two calls for the same source and directory with no file
\* created in between return the same path; after a file is created at the
\* first returned path, the next call returns another path, the one with the
\* smallest suffix k >= 1 whose name does not exist; it is _1 exactly when the
\* first returned path was the unsuffixed name and _1 did not exist.
C20_SecondCallReturnsNextFree ==
    naming.phase = "naming" =>
        \A i \in 2..Len(naming.calls) :
            LET first == naming.calls[i - 1]
                second == naming.calls[i]
            IN  /\ ~second.after_create => second.k = first.k
                /\ second.after_create =>
                      /\ second.k >= 1
                      /\ second.k > first.k
                      /\ second.k \notin second.existing
                      /\ \A j \in 1..(second.k - 1) : j \in second.existing
                      /\ second.k = 1 <=> (first.k = 0 /\ 1 \notin first.existing)

\* the first call returned _1, the file was created there, and the next call
\* returned _2
C20_Witness ==
    /\ naming.phase = "naming"
    /\ Len(naming.calls) >= 2
    /\ naming.calls[1].k = 1
    /\ naming.calls[2].after_create
    /\ naming.calls[2].k = 2

\* C21: in batch processing a failure of one file's pipeline at any step does
\* not stop the batch: every file of the list is attempted exactly once, in
\* sorted order, each failure is recorded with the file's name and error, and
\* when the batch ends successes plus recorded failures equal the number of
\* files.
C21_BatchSurvivesFailures ==
    /\ batch.phase \in {"loop", "blocked", "ended"} =>
          /\ \A i \in 1..Len(batch.attempted) :
                batch.attempted[i] = batch.video_files[i]
          /\ \A i, j \in 1..Len(batch.video_files) :
                i < j => batch.video_files[i] < batch.video_files[j]
          /\ batch.processed + Len(batch.failed) = batch.idx - 1
          /\ \A i \in 1..Len(batch.failed) :
                /\ \E k \in 1..Len(batch.attempted) :
                      batch.attempted[k] = batch.failed[i].name
                /\ \E k \in 1..Len(FileSteps) :
                      batch.failed[i].error = FileSteps[k]
          /\ (batch.failed # <<>> /\ batch.idx <= Len(batch.video_files)) =>
                batch.phase # "ended"
    /\ batch.phase = "ended" =>
          /\ Len(batch.attempted) = Len(batch.files)
          /\ \A f \in 1..MaxFiles :
                Cardinality({i \in 1..Len(batch.files) : batch.files[i] = f})
                    = Cardinality({i \in 1..Len(batch.attempted) :
                                        batch.attempted[i] = f})
          /\ batch.processed + Len(batch.failed) = Len(batch.files)

\* a batch given in unsorted order has ended with its first file failed and
\* a later file processed
C21_Witness ==
    /\ batch.phase = "ended"
    /\ Len(batch.files) >= 2
    /\ batch.files[1] > batch.files[2]
    /\ batch.failed # <<>>
    /\ batch.failed[1].name = batch.video_files[1]
    /\ batch.processed >= 1

\* an instance that has its temporary directory and has not finished
Active(i) ==
    /\ inst.phase = "run"
    /\ inst.of[i].pc \in {"allocated", "in_temp_dir", "intro_made",
                          "concatenated"}

\* C22: pipeline instances for different files share no mutable state and no
\* temporary working directory: no two instances use the same temporary
\* directory or intro clip path, and no instance changes process-wide state
\* (the current working directory) that an instance running at the same time
\* depends on.
C22_InstancesShareNothing ==
    \A i, j \in Instances :
        (i # j /\ Active(i) /\ Active(j)) =>
            /\ inst.of[i].temp_dir # inst.of[j].temp_dir
            /\ inst.of[i].intro_path # inst.of[j].intro_path
            /\ ProcessOf(inst.driver, i) # ProcessOf(inst.driver, j)

\* the encoder of the table of the specification for a lower case codec
\* name, "" for a name that is not in that table
SpecTable(c) ==
    CASE c \in {"h264", "avc"} -> "libx264"
      [] c \in {"hevc", "h265"} -> "libx265"
      [] c = "vp8" -> "libvpx"
      [] c = "vp9" -> "libvpx-vp9"
      [] c = "av1" -> "libaom-av1"
      [] c = "mpeg4" -> "mpeg4"
      [] c = "mpeg2" -> "mpeg2video"
      [] OTHER -> ""

\* the encoder of the table of the code: the table of the specification and
\* the aliases x264, x265, mp4v and mpeg2video
CodeTable(c) ==
    CASE c = "x264" -> "libx264"
      [] c = "x265" -> "libx265"
      [] c = "mp4v" -> "mpeg4"
      [] c = "mpeg2video" -> "mpeg2video"
      [] OTHER -> SpecTable(c)

\* C23 (as stated): the intro's encoder is chosen from the source codec name,
\* compared case-insensitively, by the table h264/avc -> libx264, hevc/h265 ->
\* libx265, vp8 -> libvpx, vp9 -> libvpx-vp9, av1 -> libaom-av1, mpeg4 ->
\* mpeg4, mpeg2 -> mpeg2video; every name outside the table is passed through
\* verbatim, in its original spelling.
C23_SevenFamilyTable ==
    enc.phase = "selected" =>
        LET name == enc.video_info.codec_name
        IN  enc.cmd.codec = IF SpecTable(Lower(name)) # ""
                            THEN SpecTable(Lower(name))
                            ELSE name

\* C23 (amended): the same table extended by the aliases x264 -> libx264,
\* x265 -> libx265, mp4v -> mpeg4 and mpeg2video -> mpeg2video, compared
\* case-insensitively; every name outside the extended table is passed through
\* verbatim, in its original spelling.
C23_TableWithAliases ==
    enc.phase = "selected" =>
        LET name == enc.video_info.codec_name
        IN  enc.cmd.codec = IF CodeTable(Lower(name)) # ""
                            THEN CodeTable(Lower(name))
                            ELSE name

\* an alias of the code's table, spelled in upper case, was mapped
C23_Witness ==
    /\ enc.phase = "selected"
    /\ enc.video_info.codec_name = "MP4V"
    /\ enc.cmd.codec = "mpeg4"

\* every character on its own: a backslash doubled, a single quote preceded
\* by one backslash
RECURSIVE EscapedCharwise(_)
EscapedCharwise(s) ==
    IF s = <<>> THEN <<>>
    ELSE (CASE Head(s) = "\\" -> <<"\\", "\\">>
            [] Head(s) = "'" -> <<"\\", "'">>
            [] OTHER -> <<Head(s)>>) \o EscapedCharwise(Tail(s))

\* reading an escaped text: a backslash makes the next character literal
RECURSIVE unescape(_)
unescape(s) ==
    IF s = <<>> THEN <<>>
    ELSE IF Head(s) = "\\" /\ Len(s) >= 2
         THEN <<s[2]>> \o unescape(SubSeq(s, 3, Len(s)))
         ELSE <<Head(s)>> \o unescape(Tail(s))

\* the line a directive belongs to
LineOf(text, n) == IF n = 1 THEN split(text).line1 ELSE split(text).line2

\* the literal texts of a static intro, before escaping
StaticLines(text) ==
    IF \E i \in 1..Len(text) : text[i] = NL
    THEN IF split(text).line2 # <<>>
         THEN <<split(text).line1, split(text).line2>>
         ELSE <<split(text).line1>>
    ELSE <<text>>

\* C24: every literal text put into an overlay directive (whole lines in
\* static mode, accumulated prefixes in typewriter mode) has each backslash
\* doubled and each single quote preceded by one backslash, the backslashes
\* added for quotes not being doubled; unescaping the inserted text gives the
\* original string back.
C24_EscapingRoundTrip ==
    timing.phase = "planned" =>
        /\ \A i \in 1..Len(timing.filter.directives) :
              LET d == timing.filter.directives[i]
                  raw == SubSeq(LineOf(timing.text, d.line), 1, d.k)
              IN  /\ d.text = EscapedCharwise(raw)
                  /\ unescape(d.text) = raw
        /\ ~timing.typewriter_effect =>
              /\ Len(timing.static) = Len(StaticLines(timing.text))
              /\ \A i \in 1..Len(timing.static) :
                    /\ timing.static[i] = EscapedCharwise(StaticLines(timing.text)[i])
                    /\ unescape(timing.static[i]) = StaticLines(timing.text)[i]

\* a typewriter directive whose prefix holds a quote and a backslash
C24_Witness ==
    /\ timing.phase = "planned"
    /\ timing.typewriter_effect
    /\ \E i \in 1..Len(timing.filter.directives) :
          timing.filter.directives[i].text = <<"\\", "'", "\\", "\\">>

\* the directives of a planned typewriter intro
Directives ==
    IF timing.phase = "planned" /\ timing.typewriter_effect
    THEN timing.filter.directives
    ELSE <<>>

\* between(t, start, end): start <= t <= end
ActiveAt(d, t) == d.start <= t /\ t <= d.end

\* C25: in typewriter mode the activation windows of the directives of one
\* line do not overlap: at no instant t are two directives of the same line
\* both active (stated here for the speeds above 0).
C25_WindowsDisjoint ==
    \A i, j \in 1..Len(Directives) :
        (i < j /\ Directives[i].line = Directives[j].line /\ timing.speed > 0) =>
            \A t \in {Directives[k].start : k \in 1..Len(Directives)} :
                ~(ActiveAt(Directives[i], t) /\ ActiveAt(Directives[j], t))

\* C26: for a single line of N >= 1 characters in typewriter mode the windows
\* cover [0, effective duration] without a gap: the first starts at 0, each
\* ends where the next starts, the last ends at the effective duration.
C26_WindowsCoverClip ==
    (/\ timing.phase = "planned"
     /\ timing.typewriter_effect
     /\ split(timing.text).line2 = <<>>
     /\ split(timing.text).line1 # <<>>) =>
        LET d == timing.filter.directives
        IN  /\ Len(d) = Len(split(timing.text).line1)
            /\ d[1].start = 0
            /\ \A i \in 1..(Len(d) - 1) : d[i].end = d[i + 1].start
            /\ d[Len(d)].end = timing.effective * timing.filter.den

\* a one-line typewriter intro of three characters whose last window is
\* longer than a character's slot
C26_Witness ==
    /\ timing.phase = "planned"
    /\ timing.typewriter_effect
    /\ timing.text = <<"a", "a", "a">>
    /\ timing.speed = 150
    /\ Len(timing.filter.directives) = 3
    /\ timing.filter.directives[3].start = 300
    /\ timing.filter.directives[3].end = timing.effective

\* C27: in the filter program make_intro_video builds in typewriter mode every
\* directive has 0 <= start <= end <= effective duration, and the start times
\* do not decrease in directive order, line 1 followed by line 2.
C27_WindowsOrderedAndBounded ==
    /\ \A i \in 1..Len(Directives) :
          /\ 0 <= Directives[i].start
          /\ Directives[i].start <= Directives[i].end
          /\ Directives[i].end <= timing.effective * timing.filter.den
    /\ \A i \in 1..(Len(Directives) - 1) :
          /\ Directives[i].start <= Directives[i + 1].start
          /\ Directives[i].line <= Directives[i + 1].line

\* a two-line typewriter intro with two characters on the first line and
\* one on the second
C27_Witness ==
    /\ Len(Directives) = 3
    /\ timing.speed = 1000
    /\ Directives[2].line = 1
    /\ Directives[3].line = 2
    /\ Directives[2].start < Directives[3].start

\* C28: in make_intro_video's typewriter mode, for every text, speed >= 0 and
\* requested duration, the second line never overflows the effective
\* duration: the adjusted speed is the requested speed, no character is
\* dropped, and the filter program has len(line1) + len(line2) directives.
C28_NoAdjustmentInPipeline ==
    (timing.phase = "planned" /\ timing.typewriter_effect) =>
        /\ timing.filter.den = 1
        /\ timing.filter.adjusted = timing.speed
        /\ Len(timing.filter.directives) =
              Len(split(timing.text).line1) + Len(split(timing.text).line2)
        /\ line2_start(timing.text, timing.speed)
              + Len(split(timing.text).line2) * timing.speed <= timing.effective

\* a two-line typewriter intro whose schedule is longer than the requested
\* duration
C28_Witness ==
    /\ timing.phase = "planned"
    /\ timing.typewriter_effect
    /\ Len(split(timing.text).line2) >= 2
    /\ line2_start(timing.text, timing.speed)
          + Len(split(timing.text).line2) * timing.speed > timing.duration
    /\ Len(timing.filter.directives) = Len(timing.text) - 1

\* the directives of line n of a filter program built on its own
BuiltLine(n) ==
    IF timing.phase = "filter_built"
    THEN SelectSeq(timing.filter.directives, LAMBDA d : d.line = n)
    ELSE <<>>

C30_DirectivesRenderPrefixes ==
    timing.phase = "filter_built" =>
        \A n \in {1, 2} :
            LET line == LineOf(timing.text, n)
                \* the duration does not reach the start of line 2
                cut == n = 2 /\ timing.duration
                            <= line2_start(timing.text, timing.speed)
            IN  /\ \A k \in 1..Len(BuiltLine(n)) :
                      /\ BuiltLine(n)[k].k = k
                      /\ BuiltLine(n)[k].text = escape(SubSeq(line, 1, k))
                /\ ~cut => Len(BuiltLine(n)) = Len(line)
                /\ line = <<>> => BuiltLine(n) = <<>>

\* a line of three different characters has given three directives, the
\* third with all three characters
C30_Witness ==
    /\ timing.phase = "filter_built"
    /\ timing.text = <<"a", "'", "\\">>
    /\ Len(BuiltLine(1)) = 3
    /\ BuiltLine(1)[3].text = <<"a", "\\", "'", "\\", "\\">>

\* the number of non-empty lines of a text split on its first line break
NonEmptyLines(text) ==
    (IF split(text).line1 # <<>> THEN 1 ELSE 0)
        + (IF split(text).line2 # <<>> THEN 1 ELSE 0)

\* C31: in static mode the filter program holds exactly one directive per
\* non-empty line of the text split on its first line break (two when both
\* lines are non-empty, one when exactly one is), and never a directive whose
\* text is empty.
C31_OneDirectivePerNonEmptyLine ==
    (/\ timing.phase = "planned"
     /\ ~timing.typewriter_effect
     /\ NonEmptyLines(timing.text) >= 1) =>
        /\ Len(timing.static) = NonEmptyLines(timing.text)
        /\ \A i \in 1..Len(timing.static) : timing.static[i] # <<>>

\* the hint the keywords of a captured text select
HintByKeywords(text) ==
    CASE "codec" \in text -> "codec"
      [] "stream" \in text \/ "mismatch" \in text -> "stream"
      [] "duration" \in text -> "duration"
      [] OTHER -> "generic"

\* C32: when concat_videos fails the size validation that attaches a hint,
\* the hint is selected by the text captured from the concatenation step:
\* the codec hint if it contains "codec", the stream hint if it contains
\* "stream" or "mismatch", the duration hint if it contains "duration", and
\* the generic hint only when none of these keywords occurs.
C32_HintFollowsKeywords ==
    (cv.phase = "raised" /\ cv.raised = "too_small") =>
        cv.hint = HintByKeywords(cv.output_text)

\* C33: concat_videos emits the progress event (100, done) only in runs that
\* end successfully: a run that has emitted it does not raise.
C33_DoneEventMeansSuccess ==
    (cv.phase = "raised" /\ cv.progress_callback) =>
        \A i \in 1..Len(cv.events) : cv.events[i].p # 100

\* C34: for every video height the font size of the overlay is
\* round(height x 0.055), the integer nearest to height x 11 / 200 (height
\* 720 gives 40).
C34_FontSizeIsRounded ==
    enc.phase = "font_done" =>
        /\ 200 * enc.font_size - 11 * enc.height <= 100
        /\ 11 * enc.height - 200 * enc.font_size <= 100
        /\ (enc.height = 720 => enc.font_size = 40)

\* the last attempt that produced a result, "none" when both raised
LastResult ==
    IF probe.attempts = 2 /\ probe.second # "raises" THEN probe.second
    ELSE IF probe.first # "raises" THEN probe.first
    ELSE "none"

\* C35: on Windows, when the first probe attempt does not yield exit code 0
\* with non-empty output (exit 0 with empty output and an exception
\* included), exactly one further attempt is made, and none otherwise; the
\* probe returns a profile exactly when the last attempt that produced a
\* result yielded exit 0 with non-empty output that parses into a profile;
\* a first attempt that failed does not make the probe fail when the second
\* one yields such output.
C35_OneFallbackAttempt ==
    probe.phase = "attempt_done" =>
        /\ probe.attempts =
              IF probe.first \in {"exit0_empty", "nonzero", "raises"}
              THEN 2 ELSE 1
        /\ (probe.err.kind = "none") <=>
              (/\ LastResult = "exit0_json"
               /\ FirstOfType(probe.streams, "video") # 0)
        /\ (/\ probe.first \in {"exit0_empty", "nonzero", "raises"}
            /\ probe.second = "exit0_json"
            /\ FirstOfType(probe.streams, "video") # 0)
              => probe.err.kind = "none"

\* the first attempt gave exit 0 with empty output and the second a profile
C35_Witness ==
    /\ probe.phase = "attempt_done"
    /\ probe.first = "exit0_empty"
    /\ probe.attempts = 2
    /\ probe.err.kind = "none"
    /\ probe.profile.codec_name = "hevc"

\* make_intro_video has returned or raised
MiExited == mi.phase \in {"returned", "raised"}

\* C39: make_intro_video leaves the process's current working directory
\* equal to its value at call time on every exit path: success, encoder
\* failure, and any exception raised after the directory change.
C39_WorkingDirectoryRestored ==
    MiExited => mi.cwd = mi.at_call

\* the encoder failed after the process had moved to another directory
C39_Witness ==
    /\ mi.phase = "raised"
    /\ mi.raised = "encoder"
    /\ mi.temp_dir # mi.at_call
    /\ mi.cwd = mi.at_call

\* every progress callback posted so far, delivered or not
Posted ==
    IF gui.phase \in {"progress", "progress_end"}
    THEN {gui.shown[i] : i \in 1..Len(gui.shown)}
            \cup {gui.queue[i] : i \in 1..Len(gui.queue)}
    ELSE {}

\* the updates run by the main loop are in the order of their emission
DeliveredInOrder ==
    gui.phase \in {"progress", "progress_end"} =>
        \A i, j \in 1..Len(gui.shown) :
            (i < j /\ gui.shown[i].idx = gui.shown[j].idx)
                => gui.shown[i].n < gui.shown[j].n

WorkersAtWork(g) ==
    IF g.phase = "app"
    THEN {i \in 1..Len(g.workers) : g.workers[i].pc \in AtWork}
    ELSE {}

\* C37: at most one processing worker is at work at any time: a start
\* request made while is_processing is true starts no worker, and a worker
\* is started only when every earlier worker has finished its pipeline work.
C37_OneWorkerAtWork ==
    [][gui.phase = "app" =>
          /\ gui.is_processing => Len(gui'.workers) = Len(gui.workers)
          /\ Len(gui'.workers) > Len(gui.workers) => WorkersAtWork(gui) = {}
          /\ Cardinality(WorkersAtWork(gui')) <= 1]_vars

\* a start request was refused while the worker of the run was on its files
C37_Witness ==
    /\ gui.phase = "app"
    /\ gui.is_processing
    /\ gui.last_start = "busy"
    /\ Len(gui.workers) = 1
    /\ gui.workers[1].pc = "file"

\* C38: every processing run started from the GUI eventually sets
\* is_processing back to false and enables the start button again, whether
\* all files succeeded, some failed or the run was aborted by the tool
\* check, provided every external process returns.
C38_RunEndsAndButtonReturns ==
    (gui.phase = "app" /\ gui.is_processing)
        ~> (~gui.is_processing /\ gui.button = "normal")

\* a run aborted by the tool check has ended and the button is enabled again
C38_Witness ==
    /\ gui.phase = "app"
    /\ ~gui.is_processing
    /\ gui.button = "normal"
    /\ Len(gui.workers) = 1
    /\ gui.workers[1].pc = "exited"
    /\ gui.workers[1].outcome = "setup_failed"

====
